---- MODULE Spec2Model ----
(***************************************************************************)
(* A model of the geometric scene evaluation engine of SceneEval:         *)
(* CollisionMetric.run (src/metrics/collision.py), OutOfBoundMetric.run   *)
(* (src/metrics/out_of_bound.py), NavigabilityMetric.run                  *)
(* (src/metrics/navigability.py) and OpeningClearanceMetric.run           *)
(* (src/metrics/opening_clearance.py).                                    *)
(*                                                                         *)
(* Geometry.  Lengths are integers in millimetres.  An object mesh is an  *)
(* axis-aligned box on the X axis, [cx - half, cx + half]; all boxes have *)
(* the same Y and Z extent, so two boxes' surfaces meet exactly when      *)
(* their closed X intervals meet.  A mesh of kind "degenerate" is one the *)
(* collision library cannot build a query structure for; a mesh of kind   *)
(* "nan" is a copy whose vertices were translated by a NaN vector.        *)
(* Boxes are 1 m deep and 1 m high.  The floor plane is cut into cells    *)
(* 0.5 m long on the X axis; a floor element covers cells, and a sample   *)
(* point's downward ray hits the floor iff the point's cell is covered.   *)
(***************************************************************************)
EXTENDS Integers, Sequences, FiniteSets, TLC

VARIABLES
    scene,              \* the Scene the metrics read: obj_ids, t_objs, floor
    pc,                 \* per run: position in CollisionMetric.run
    collision_manager,  \* per query structure: name -> resident mesh
    collision_results,  \* per run: obj_id -> [in_collision, colliding_with]
    i,                  \* per run: outer loop position (1-based)
    other_ids,          \* per run: what is left of get_obj_ids()[i+1:]
    locals,             \* per run: in_collision, contact_pts, move_direction,
                        \*          moved_t_other_obj of the current pair
    calls,              \* per run: trace of in_collision_single calls
    nan_answers,        \* the library's answers on meshes with NaN vertices
    result,             \* per run: the returned MetricResult.data
    oob_pc,             \* per run: position in OutOfBoundMetric.run
    evaluations,        \* per run: obj_id -> the out-of-bound record
    oob_i,              \* per run: loop position (1-based)
    sample_points,      \* per run: obj_id -> the points sampled on it
    ray_hit_pts,        \* per run: obj_id -> number of hit points returned
    oob_error,          \* per run: the exception that ended the run
    oob_result,         \* per run: the returned MetricResult.data
    nav_cfg,            \* the NavigabilityMetricConfig of the metric
    nav_pc,             \* per run: position in NavigabilityMetric.run
    image,              \* per run: pixel -> colour triple
    robot_width,        \* per run: the robot's width in pixels
    object_area_ratio,  \* per run: the object-area diagnostic
    nav_error,          \* per run: the exception that ended the run
    nav_result,         \* per run: the returned MetricResult.data
    op_cfg,             \* the OpeningClearanceMetricConfig of the metric
    op_pc,              \* per run: position in OpeningClearanceMetric.run
    op_todo,            \* per run: the openings still to process
    op_cur,             \* per run: the opening being processed
    op_dirs,            \* per run: the directions still to check for it
    interfering_obj_ids,\* per run: the interfering objects of the side
    occupancy_maps,     \* per run: obj_id -> filled pixels, of the side
    op_error,           \* per run: the exception that ended the run
    op_result,          \* per run: the returned MetricResult.data
    extrude_call        \* per run: a call of _get_opening_extrude_distance

collVars == <<pc, collision_manager, collision_results, i, other_ids,
              locals, calls, nan_answers, result>>

oobVars == <<oob_pc, evaluations, oob_i, sample_points, ray_hit_pts, oob_error,
             oob_result>>

navVars == <<nav_cfg, nav_pc, image, robot_width, object_area_ratio, nav_error,
             nav_result>>

opVars == <<op_cfg, op_pc, op_todo, op_cur, op_dirs, interfering_obj_ids,
            occupancy_maps, op_error, op_result, extrude_call>>

\* What CollisionMetric.run neither reads nor writes.
nonCollisionVars == <<oobVars, navVars, opVars>>

\* What OutOfBoundMetric.run neither reads nor writes.
nonOobVars == <<collVars, navVars, opVars>>

\* What NavigabilityMetric.run neither reads nor writes.
nonNavVars == <<collVars, oobVars, opVars>>

\* What OpeningClearanceMetric.run neither reads nor writes.
nonOpeningVars == <<collVars, oobVars, navVars>>

\* ------------------------------------------------------------------ bounds

MaxObjs == 3

\* The invocations of run that the model follows.
Runs == {1, 2}

\* Box centres on the X axis (mm): coincident, 0.3 m, 0.5 m, 0.998 m, 1 m
\* and 1.5 m from the first, and one out of reach of every other.
Positions == {0, 300, 500, 998, 1000, 1500, 2600}

\* ----------------------------------------------------------------- meshes

UnitCube(c) == [kind |-> "box", cx |-> c, half |-> 500]

DegenerateMesh == [kind |-> "degenerate", cx |-> 0, half |-> 0]

MeshChoices == {UnitCube(c) : c \in Positions} \cup {DegenerateMesh}

Lo(m) == m.cx - m.half

Hi(m) == m.cx + m.half

Centroid(m) == m.cx

Max(a, b) == IF a >= b THEN a ELSE b

Min(a, b) == IF a <= b THEN a ELSE b

Abs(a) == IF a >= 0 THEN a ELSE -a

RECURSIVE SeqSum(_)
SeqSum(s) == IF s = <<>> THEN 0 ELSE Head(s) + SeqSum(Tail(s))

\* ------------------------------------------------------------- the scene

ObjIdsOf(n) == [k \in 1..n |-> k]

get_obj_ids == scene.obj_ids

t_objs == scene.t_objs

NumObjs == Len(get_obj_ids)

ObjSet == {get_obj_ids[k] : k \in 1..NumObjs}

\* ---------------------------------------------------- collision library

\* The mesh-mesh test of the library on two boxes: surfaces that touch
\* count as intersecting.
MeshesIntersect(a, b) == Lo(a) <= Hi(b) /\ Lo(b) <= Hi(a)

\* The contact points of two intersecting boxes lie on the faces bounding
\* their common region; their X coordinates are its two ends.
PairContacts(a, b) ==
    IF MeshesIntersect(a, b)
    THEN <<Max(Lo(a), Lo(b)), Min(Hi(a), Hi(b))>>
    ELSE <<>>

RECURSIVE ManagerContacts(_, _, _)
ManagerContacts(mgr, names, mesh) ==
    IF names = {} THEN <<>>
    ELSE LET n == CHOOSE x \in names : TRUE
         IN  PairContacts(mgr[n], mesh) \o ManagerContacts(mgr, names \ {n}, mesh)

\* CollisionManager.in_collision_single(mesh, return_data=True) on a box.
InCollisionSingle(mgr, mesh) == \E n \in DOMAIN mgr : MeshesIntersect(mgr[n], mesh)

ContactData(mgr, mesh) == ManagerContacts(mgr, DOMAIN mgr, mesh)

\* The library builds a query structure of the mesh it is given: it
\* cannot for a degenerate mesh.
CanEvaluate(mesh) == mesh.kind # "degenerate"

\* ------------------------------------------------------- CollisionMetric

MoveDirectionAmount == 5

\* One query structure kept by the metric and used by every run.
ManagerOf_Shared(r) == 1

\* The query structure a run uses: its own local collision_manager.
ManagerOf(r) == r

InitCollisionResults ==
    [o \in ObjSet |-> [in_collision |-> FALSE, colliding_with |-> <<>>]]

\* The slice taken from the current object on: get_obj_ids()[i:].
OtherObjIds_FromCurrent(k) == SubSeq(get_obj_ids, k, NumObjs)

\* The whole list: get_obj_ids() without the slice.
OtherObjIds_All(k) == get_obj_ids

\* self.scene.get_obj_ids()[i+1:] for the 0-based i of enumerate; k is the
\* 1-based position of obj_id.
OtherObjIds(k) == SubSeq(get_obj_ids, k + 1, NumObjs)

\* t_other_obj.centroid - np.mean(contact_pts, axis=0), times the number of
\* contact points (the sign and the zero are those of the difference).
MoveDirectionRaw(mesh, contact_pts) ==
    Len(contact_pts) * Centroid(mesh) - SeqSum(contact_pts)

\* move_direction /= np.linalg.norm(move_direction): a unit vector, or NaN
\* for the zero vector (0.0 / 0.0).
Normalize(v) == IF v = 0 THEN "nan" ELSE IF v > 0 THEN "+x" ELSE "-x"

MoveDirection(mesh, contact_pts) == Normalize(MoveDirectionRaw(mesh, contact_pts))

\* The copy left where the original is.
MovedCopy_NotMoved(mesh, move_direction) ==
    IF move_direction = "nan" THEN [mesh EXCEPT !.kind = "nan"] ELSE mesh

\* t_other_obj.copy() and apply_translation(move_direction * amount).
MovedCopy(mesh, move_direction) ==
    IF move_direction = "nan"
    THEN [mesh EXCEPT !.kind = "nan"]
    ELSE [mesh EXCEPT !.cx = IF move_direction = "+x"
                               THEN mesh.cx + MoveDirectionAmount
                               ELSE mesh.cx - MoveDirectionAmount]

\* Line 85 without copy(): the translation moves the scene's own mesh.
SceneAfterTranslation_InPlace(s, other_obj_id, moved) ==
    [s EXCEPT !.t_objs[other_obj_id] = moved]

\* The scene after lines 85-86: apply_translation is called on the mesh
\* t_other_obj.copy() returned, so the scene keeps the mesh it had.
SceneAfterTranslation(s, other_obj_id, moved) == s

\* The library's answer on a copy with NaN vertices, taken anew at every
\* call.
DoubleCheckOutcomes_Unrepeatable(mgr, moved) ==
    IF moved.kind = "nan" THEN {"true", "false", "raise"}
    ELSE IF InCollisionSingle(mgr, moved) THEN {"true"} ELSE {"false"}

\* What the second in_collision_single can give.  On a copy with NaN
\* vertices the library's answer is not defined: any of the three.  The
\* library computes it from its arguments alone, so the same resident
\* meshes and the same copy get the answer they got before.
DoubleCheckOutcomes(mgr, moved) ==
    IF moved.kind = "nan"
    THEN IF <<mgr, moved>> \in DOMAIN nan_answers
         THEN {nan_answers[<<mgr, moved>>]}
         ELSE {"true", "false", "raise"}
    ELSE IF InCollisionSingle(mgr, moved) THEN {"true"} ELSE {"false"}

\* The record made whatever the second test says.
StillInCollision_Always(double_check_in_collision) == TRUE

\* if double_check_in_collision:
StillInCollision(double_check_in_collision) == double_check_in_collision

\* Line 96 left out: the other object's list is not extended.
RecordCollision_OneList(res, obj_id, other_obj_id) ==
    [res EXCEPT
        ![obj_id] = [in_collision |-> TRUE,
                     colliding_with |-> Append(res[obj_id].colliding_with, other_obj_id)],
        ![other_obj_id] = [in_collision |-> TRUE,
                           colliding_with |-> res[other_obj_id].colliding_with]]

\* Line 95 left out: the other object's flag is not set.
RecordCollision_OneFlag(res, obj_id, other_obj_id) ==
    [res EXCEPT
        ![obj_id] = [in_collision |-> TRUE,
                     colliding_with |-> Append(res[obj_id].colliding_with, other_obj_id)],
        ![other_obj_id] = [in_collision |-> res[other_obj_id].in_collision,
                           colliding_with |-> Append(res[other_obj_id].colliding_with, obj_id)]]

\* Lines 93-96.
RecordCollision(res, obj_id, other_obj_id) ==
    [res EXCEPT
        ![obj_id] = [in_collision |-> TRUE,
                     colliding_with |-> Append(res[obj_id].colliding_with, other_obj_id)],
        ![other_obj_id] = [in_collision |-> TRUE,
                           colliding_with |-> Append(res[other_obj_id].colliding_with, obj_id)]]

NumObjInCollision(res) == Cardinality({o \in DOMAIN res : res[o].in_collision})

Summary(res) ==
    [scene_in_collision   |-> NumObjInCollision(res) > 0,
     num_obj_in_collision |-> NumObjInCollision(res),
     collision_results    |-> res]

NoResult == [none |-> TRUE]

NoLocals == [in_collision |-> FALSE, contact_pts |-> <<>>,
             move_direction |-> "none", moved_t_other_obj |-> DegenerateMesh,
             zero_vector |-> FALSE]

EmptyManager == [n \in {} |-> DegenerateMesh]

CurObj(r) == get_obj_ids[i[r]]

\* Lines 52-60: the manager and the initial results.
CollisionStart(r) ==
    /\ pc[r] = "idle"
    /\ collision_manager' = [collision_manager EXCEPT ![ManagerOf(r)] = EmptyManager]
    /\ collision_results' = [collision_results EXCEPT ![r] = InitCollisionResults]
    /\ i' = [i EXCEPT ![r] = 1]
    /\ pc' = [pc EXCEPT ![r] = "outer"]
    /\ UNCHANGED <<scene, other_ids, locals, calls, nan_answers, result>>
    /\ UNCHANGED nonCollisionVars

\* Lines 63-67: the next object goes into the manager.
CollisionAddObject(r) ==
    /\ pc[r] = "outer"
    /\ i[r] <= NumObjs
    /\ LET obj_id == CurObj(r)
           t_obj  == t_objs[obj_id]
           mgr    == collision_manager[ManagerOf(r)]
       IN  IF CanEvaluate(t_obj)
           THEN /\ collision_manager' =
                      [collision_manager EXCEPT ![ManagerOf(r)] =
                          [n \in DOMAIN mgr \cup {obj_id} |->
                              IF n = obj_id THEN t_obj ELSE mgr[n]]]
                /\ other_ids' = [other_ids EXCEPT ![r] = OtherObjIds(i[r])]
                /\ pc' = [pc EXCEPT ![r] = "inner"]
           ELSE /\ pc' = [pc EXCEPT ![r] = "raised"]
                /\ UNCHANGED <<collision_manager, other_ids>>
    /\ UNCHANGED <<scene, collision_results, i, locals, calls, nan_answers, result>>
    /\ UNCHANGED nonCollisionVars

\* Lines 70-77 and 98: the first test of the pair.
CollisionFirstCheck(r) ==
    /\ pc[r] = "inner"
    /\ other_ids[r] # <<>>
    /\ LET other_obj_id == Head(other_ids[r])
           t_other_obj  == t_objs[other_obj_id]
           mgr          == collision_manager[ManagerOf(r)]
       IN  IF ~CanEvaluate(t_other_obj)
           THEN /\ pc' = [pc EXCEPT ![r] = "raised"]
                /\ calls' = [calls EXCEPT ![r] = Append(@,
                      [stage |-> 1, resident |-> DOMAIN mgr, query |-> other_obj_id,
                       mesh |-> t_other_obj, answer |-> "raise"])]
                /\ UNCHANGED <<other_ids, locals>>
           ELSE LET in_collision == InCollisionSingle(mgr, t_other_obj)
                IN  /\ calls' = [calls EXCEPT ![r] = Append(@,
                          [stage |-> 1, resident |-> DOMAIN mgr, query |-> other_obj_id,
                           mesh |-> t_other_obj,
                           answer |-> IF in_collision THEN "true" ELSE "false"])]
                    /\ locals' = [locals EXCEPT ![r] =
                          [NoLocals EXCEPT !.in_collision = in_collision,
                                           !.contact_pts = ContactData(mgr, t_other_obj)]]
                    /\ IF in_collision
                       THEN /\ pc' = [pc EXCEPT ![r] = "double_check"]
                            /\ UNCHANGED other_ids
                       ELSE /\ other_ids' = [other_ids EXCEPT ![r] = Tail(@)]
                            /\ UNCHANGED pc
    /\ UNCHANGED <<scene, collision_manager, collision_results, i, nan_answers, result>>
    /\ UNCHANGED nonCollisionVars

\* Lines 80-96 and 98: the separation, the second test and the record.
CollisionDoubleCheck(r) ==
    /\ pc[r] = "double_check"
    /\ LET obj_id       == CurObj(r)
           other_obj_id == Head(other_ids[r])
           t_other_obj  == t_objs[other_obj_id]
           mgr          == collision_manager[ManagerOf(r)]
           contact_pts  == locals[r].contact_pts
           raw          == MoveDirectionRaw(t_other_obj, contact_pts)
           move_direction == MoveDirection(t_other_obj, contact_pts)
           moved        == MovedCopy(t_other_obj, move_direction)
       IN  \E outcome \in DoubleCheckOutcomes(mgr, moved) :
             /\ scene' = SceneAfterTranslation(scene, other_obj_id, moved)
             /\ locals' = [locals EXCEPT ![r].move_direction = move_direction,
                                         ![r].moved_t_other_obj = moved,
                                         ![r].zero_vector = (raw = 0)]
             /\ calls' = [calls EXCEPT ![r] = Append(@,
                   [stage |-> 2, resident |-> DOMAIN mgr, query |-> other_obj_id,
                    mesh |-> moved, answer |-> outcome])]
             /\ nan_answers' =
                   IF moved.kind = "nan"
                   THEN [x \in DOMAIN nan_answers \cup {<<mgr, moved>>} |->
                            IF x = <<mgr, moved>> THEN outcome ELSE nan_answers[x]]
                   ELSE nan_answers
             /\ IF outcome = "raise"
                THEN /\ pc' = [pc EXCEPT ![r] = "raised"]
                     /\ UNCHANGED <<collision_results, other_ids>>
                ELSE /\ collision_results' = [collision_results EXCEPT ![r] =
                            IF StillInCollision(outcome = "true")
                            THEN RecordCollision(@, obj_id, other_obj_id)
                            ELSE @]
                     /\ other_ids' = [other_ids EXCEPT ![r] = Tail(@)]
                     /\ pc' = [pc EXCEPT ![r] = "inner"]
    /\ UNCHANGED <<collision_manager, i, result>>
    /\ UNCHANGED nonCollisionVars

\* Line 104 left out: the object stays in the manager.
CollisionRemoveObject_Kept(r) ==
    /\ pc[r] = "inner"
    /\ other_ids[r] = <<>>
    /\ i' = [i EXCEPT ![r] = @ + 1]
    /\ pc' = [pc EXCEPT ![r] = "outer"]
    /\ UNCHANGED <<scene, collision_manager, collision_results, other_ids, locals,
                   calls, nan_answers, result>>
    /\ UNCHANGED nonCollisionVars

\* Line 104: the object leaves the manager.
CollisionRemoveObject(r) ==
    /\ pc[r] = "inner"
    /\ other_ids[r] = <<>>
    /\ LET mgr == collision_manager[ManagerOf(r)]
       IN  collision_manager' = [collision_manager EXCEPT ![ManagerOf(r)] =
               [n \in DOMAIN mgr \ {CurObj(r)} |-> mgr[n]]]
    /\ i' = [i EXCEPT ![r] = @ + 1]
    /\ pc' = [pc EXCEPT ![r] = "outer"]
    /\ UNCHANGED <<scene, collision_results, other_ids, locals, calls, nan_answers,
                   result>>
    /\ UNCHANGED nonCollisionVars

\* Lines 106-121: the summary and the return.
CollisionSummarize(r) ==
    /\ pc[r] = "outer"
    /\ i[r] > NumObjs
    /\ result' = [result EXCEPT ![r] = Summary(collision_results[r])]
    /\ pc' = [pc EXCEPT ![r] = "done"]
    /\ UNCHANGED <<scene, collision_manager, collision_results, i, other_ids,
                   locals, calls, nan_answers>>
    /\ UNCHANGED nonCollisionVars

CollisionRun(r) ==
    \/ CollisionStart(r)
    \/ CollisionAddObject(r)
    \/ CollisionFirstCheck(r)
    \/ CollisionDoubleCheck(r)
    \/ CollisionRemoveObject(r)
    \/ CollisionSummarize(r)

\* ------------------------------------------------------ OutOfBoundMetric

MaxOobObjs == 2

\* The most hit points a faulty ray query returns beyond the rays that hit.
MaxSpuriousHits == 1

Threshold_Num == 99

Threshold_Den == 100

VolumeSampleMultiplier == 5000

MinSamplePoints == 1000

\* The floor cells of the model, 0.5 m each from x = 0.
Cells == {0, 1, 2}

CellOf(x) == x \div 500

Box(c, h) == [kind |-> "box", cx |-> c, half |-> h]

OobMeshChoices == {Box(500, 500), Box(1000, 500), Box(500, 50)}

t_architecture == scene.t_architecture

\* arch_id.startswith("floor")
IsFloorId(arch_id) == arch_id.kind = "floor"

\* Line 63: the floor elements of the architecture.
FloorIds == {a \in DOMAIN t_architecture : IsFloorId(a)}

\* Line 64: trimesh.util.concatenate(t_floors), as the cells it covers.
t_floor == UNION {t_architecture[a] : a \in FloorIds}

\* bounding_box_oriented.volume, in litres: 2 * half mm long, 1 m by 1 m.
VolumeLitres(mesh) == 2 * mesh.half

\* Line 81: int(max(volume * multiplier, min_sample_points)), volume in m^3.
NumSamples(mesh) ==
    Max((VolumeLitres(mesh) * VolumeSampleMultiplier) \div 1000, MinSamplePoints)

LeftCell(mesh) == CellOf(Lo(mesh))

RightCell(mesh) == CellOf(Hi(mesh) - 1)

\* The ways t_obj.sample(n) is followed: how many of the n points fall in
\* the box's right cell (none, 1 %, just over 1 %, all).
SplitChoices(n) == {0, n \div 100, n \div 100 + 1, n}

\* t_obj.sample(num_samples): the number of points in each cell.
SampleOf(mesh, n, k) ==
    [c \in Cells |-> IF c = RightCell(mesh) THEN k
                     ELSE IF c = LeftCell(mesh) THEN n - k
                     ELSE 0]

RECURSIVE CountIn(_, _)
CountIn(pts, cells) ==
    IF cells = {} THEN 0
    ELSE LET c == CHOOSE x \in cells : TRUE
         IN  pts[c] + CountIn(pts, cells \ {c})

\* len(sample_points)
NumPoints(pts) == CountIn(pts, DOMAIN pts)

\* The rays that miss counted as the hits.
RayHits_Misses(pts, floor) == CountIn(pts, DOMAIN pts \ floor)

\* Line 89: t_floor.ray.intersects_location(..., multiple_hits=False): one
\* hit point for each ray that meets the floor.
RayHits(pts, floor) == CountIn(pts, DOMAIN pts \cap floor)

\* The assertion compiled away.
HitsWithinSamples_Unchecked(num_hits, num_pts) == TRUE

\* Line 91: assert len(ray_hit_pts) <= len(sample_points)
HitsWithinSamples(num_hits, num_pts) == num_hits <= num_pts

\* Line 94.
NumOutOfBound(num_pts, num_hits) == num_pts - num_hits

\* Line 95: 1.0 - (num_out_of_bound / len(sample_points)), as a fraction.
RatioInBound(num_out, num_pts) == [num |-> num_pts - num_out, den |-> num_pts]

\* The comparison with the threshold made non-strict.
IsOutOfBound_OrEqual(ratio) == ratio.num * Threshold_Den <= Threshold_Num * ratio.den

\* Line 99: ratio_in_bound < self.cfg.threshold
IsOutOfBound(ratio) == ratio.num * Threshold_Den < Threshold_Num * ratio.den

\* Lines 68-73.
InitEvaluation ==
    [num_sampled_points |-> 0, num_out_of_bound |-> 0,
     ratio_in_bound |-> [num |-> 0, den |-> 1], out_of_bound |-> TRUE]

\* Lines 94-99 for one object.
Evaluate(num_pts, num_hits) ==
    LET num_out == NumOutOfBound(num_pts, num_hits)
        ratio   == RatioInBound(num_out, num_pts)
    IN  [num_sampled_points |-> num_pts, num_out_of_bound |-> num_out,
         ratio_in_bound |-> ratio, out_of_bound |-> IsOutOfBound(ratio)]

Extend(f, key, val) == [x \in DOMAIN f \cup {key} |-> IF x = key THEN val ELSE f[x]]

OobObj(r) == get_obj_ids[oob_i[r]]

\* Lines 58-64.
OobStart(r) ==
    /\ oob_pc[r] = "idle"
    /\ evaluations' = [evaluations EXCEPT ![r] = <<>>]
    /\ oob_i' = [oob_i EXCEPT ![r] = 1]
    /\ oob_pc' = [oob_pc EXCEPT ![r] = "sample"]
    /\ UNCHANGED <<scene, sample_points, ray_hit_pts, oob_error, oob_result>>
    /\ UNCHANGED nonOobVars

\* Lines 66-84: the object's record and its sample points.
OobSample(r) ==
    /\ oob_pc[r] = "sample"
    /\ oob_i[r] <= NumObjs
    /\ LET obj_id      == OobObj(r)
           t_obj       == t_objs[obj_id]
           num_samples == NumSamples(t_obj)
       IN  \E k \in SplitChoices(num_samples) :
             LET pts == SampleOf(t_obj, num_samples, k)
             IN  /\ sample_points' = [sample_points EXCEPT ![r] = Extend(@, obj_id, pts)]
                 /\ evaluations' = [evaluations EXCEPT ![r] =
                        Extend(@, obj_id,
                               [InitEvaluation EXCEPT !.num_sampled_points = NumPoints(pts)])]
    /\ oob_pc' = [oob_pc EXCEPT ![r] = "raycast"]
    /\ UNCHANGED <<scene, oob_i, ray_hit_pts, oob_error, oob_result>>
    /\ UNCHANGED nonOobVars

\* Lines 86-100: the rays, the assertion and the object's result.  With no
\* floor element t_floor is the empty list concatenate returns, which has
\* no ray attribute.
OobRayCast(r) ==
    /\ oob_pc[r] = "raycast"
    /\ LET obj_id == OobObj(r)
           pts    == sample_points[r][obj_id]
       IN  IF FloorIds = {}
           THEN /\ oob_pc' = [oob_pc EXCEPT ![r] = "raised"]
                /\ oob_error' = [oob_error EXCEPT ![r] = "AttributeError"]
                /\ UNCHANGED <<evaluations, oob_i, ray_hit_pts>>
           ELSE \E spurious \in 0..MaxSpuriousHits :
                  LET num_hits == RayHits(pts, t_floor) + spurious
                  IN  /\ ray_hit_pts' = [ray_hit_pts EXCEPT ![r] = Extend(@, obj_id, num_hits)]
                      /\ IF HitsWithinSamples(num_hits, NumPoints(pts))
                         THEN /\ evaluations' = [evaluations EXCEPT ![r][obj_id] =
                                     Evaluate(NumPoints(pts), num_hits)]
                              /\ oob_i' = [oob_i EXCEPT ![r] = @ + 1]
                              /\ oob_pc' = [oob_pc EXCEPT ![r] = "sample"]
                              /\ UNCHANGED oob_error
                         ELSE /\ oob_pc' = [oob_pc EXCEPT ![r] = "raised"]
                              /\ oob_error' = [oob_error EXCEPT ![r] = "AssertionError"]
                              /\ UNCHANGED <<evaluations, oob_i>>
    /\ UNCHANGED <<scene, sample_points, oob_result>>
    /\ UNCHANGED nonOobVars

\* Lines 102-109.
OobReturn(r) ==
    /\ oob_pc[r] = "sample"
    /\ oob_i[r] > NumObjs
    /\ oob_result' = [oob_result EXCEPT ![r] = evaluations[r]]
    /\ oob_pc' = [oob_pc EXCEPT ![r] = "done"]
    /\ UNCHANGED <<scene, evaluations, oob_i, sample_points, ray_hit_pts, oob_error>>
    /\ UNCHANGED nonOobVars

InitOob ==
    /\ oob_pc = [r \in Runs |-> "idle"]
    /\ evaluations = [r \in Runs |-> <<>>]
    /\ oob_i = [r \in Runs |-> 0]
    /\ sample_points = [r \in Runs |-> <<>>]
    /\ ray_hit_pts = [r \in Runs |-> <<>>]
    /\ oob_error = [r \in Runs |-> "none"]
    /\ oob_result = [r \in Runs |-> NoResult]

FloorId(c) == [kind |-> "floor", n |-> c]

WallId == [kind |-> "wall", n |-> 0]

\* A floor element for each cell of cells, and a wall standing on cell 2.
ArchitectureOf(cells) ==
    [a \in {FloorId(c) : c \in cells} \cup {WallId} |->
        IF a = WallId THEN {2} ELSE {a.n}]

OobScenes ==
    UNION {{[obj_ids |-> ObjIdsOf(n), t_objs |-> m, t_architecture |-> ArchitectureOf(f)]
              : m \in [1..n -> OobMeshChoices], f \in SUBSET Cells}
           : n \in 0..MaxOobObjs}

\* ------------------------------------------------------------ navigability
\* NavigabilityMetric (src/metrics/navigability.py).  The scene is seen from
\* above: a floor element is an axis-aligned rectangle [x0, x1] x [y0, y1]
\* (its two triangles), an object is its bounding box (centre, extents,
\* rotation 0 about Z).  The image is an array of rows of colour triples;
\* the pixel <<x, y>> of img is img[y][x].

\* int(a / b) for b > 0: Python's int() truncates toward zero.
TruncDiv(a, b) == IF a >= 0 THEN a \div b ELSE -((-a) \div b)

\* Python sequences carry their type: a list never equals a tuple.
PyList(items) == [type |-> "list", items |-> items]

PyTuple(items) == [type |-> "tuple", items |-> items]

PyEq(a, b) == a.type = b.type /\ a.items = b.items

NavigabilityMetricConfig(calc, width, colors) ==
    [calculate_object_area |-> calc,
     image_resolution |-> 32,
     robot_width |-> width,
     scale_margin |-> 200,
     obj_height_threshold |-> 2000,
     floor_color |-> colors[1],
     obj_color |-> colors[2]]

\* The configuration the dataclass gives when nothing is overridden, but
\* for the image resolution.
DefaultNavConfig ==
    NavigabilityMetricConfig(FALSE, 200, <<PyList(<<255, 0, 0>>), PyList(<<0, 255, 0>>)>>)

\* floor_color and obj_color as the dataclass declares them (lists), with a
\* darker floor colour, and as tuples passed by the caller.
NavConfigs ==
    {NavigabilityMetricConfig(calc, width, colors) :
        calc \in BOOLEAN, width \in {200, 800},
        colors \in {<<PyList(<<255, 0, 0>>), PyList(<<0, 255, 0>>)>>,
                    <<PyList(<<128, 0, 0>>), PyList(<<0, 255, 0>>)>>,
                    <<PyTuple(<<255, 0, 0>>), PyTuple(<<0, 255, 0>>)>>}}

half_image_resolution == nav_cfg.image_resolution \div 2

Axis == 0..(nav_cfg.image_resolution - 1)

Pixels == Axis \X Axis

At(img, p) == img[p[2]][p[1]]

Rect(x0, y0, x1, y1) == [x0 |-> x0, y0 |-> y0, x1 |-> x1, y1 |-> y1]

\* The faces of the concatenated floor mesh.
nav_t_floor == {t_architecture[a] : a \in FloorIds}

RECURSIVE SetMax(_)
SetMax(s) ==
    LET x == CHOOSE y \in s : TRUE
    IN  IF s = {x} THEN x ELSE Max(x, SetMax(s \ {x}))

RECURSIVE SetMin(_)
SetMin(s) ==
    LET x == CHOOSE y \in s : TRUE
    IN  IF s = {x} THEN x ELSE Min(x, SetMin(s \ {x}))

\* self.t_floor.vertices, without the height.
FloorVertices ==
    UNION {{<<f.x0, f.y0>>, <<f.x0, f.y1>>, <<f.x1, f.y0>>, <<f.x1, f.y1>>}
             : f \in nav_t_floor}

\* bounds[0] + extents / 2
t_floor_center ==
    LET xs == {v[1] : v \in FloorVertices}
        ys == {v[2] : v \in FloorVertices}
    IN  [x |-> SetMin(xs) + (SetMax(xs) - SetMin(xs)) \div 2,
         y |-> SetMin(ys) + (SetMax(ys) - SetMin(ys)) \div 2]

get_scale ==
    SetMax(UNION {{Abs(v[1] - t_floor_center.x), Abs(v[2] - t_floor_center.y)}
                    : v \in FloorVertices})
    + nav_cfg.scale_margin

\* One coordinate of _scene_to_image_coordinates.
SceneToImage(v) ==
    TruncDiv(v * half_image_resolution, get_scale) + half_image_resolution

InRect(p, q) == q.x0 <= p[1] /\ p[1] <= q.x1 /\ q.y0 <= p[2] /\ p[2] <= q.y1

\* cv2.fillPoly of rectangles: their pixels take the colour.
FillRects(img, rects, color) ==
    [y \in Axis |-> [x \in Axis |->
        IF \E q \in rects : InRect(<<x, y>>, q) THEN color.items ELSE img[y][x]]]

\* The floor faces on the image: the image corners of a rectangle and
\* everything between them (Y is mirrored).
DrawFloor(img) ==
    LET FaceOnImage(f) ==
            LET xa == SceneToImage(f.x0 - t_floor_center.x)
                xb == SceneToImage(f.x1 - t_floor_center.x)
                ya == SceneToImage(-(f.y0 - t_floor_center.y))
                yb == SceneToImage(-(f.y1 - t_floor_center.y))
            IN  Rect(Min(xa, xb), Min(ya, yb), Max(xa, xb), Max(ya, yb))
    IN  FillRects(img, {FaceOnImage(f) : f \in nav_t_floor}, nav_cfg.floor_color)

\* cv2.erode of channel 0 with a k x k kernel of ones anchored at its
\* centre k // 2: the minimum over the window, taken along rows and then
\* along columns.  Pixels outside the image do not lower the minimum.
ErodeChannel0(img, k) ==
    LET Window(c) ==
            Max(0, c - (k \div 2)) .. Min(nav_cfg.image_resolution - 1, c + k - 1 - (k \div 2))
        rows == [y \in Axis |-> [x \in Axis |->
                    SetMin({img[y][u][1] : u \in Window(x)})]]
    IN  [y \in Axis |-> [x \in Axis |->
            <<SetMin({rows[v][x] : v \in Window(y)}), img[y][x][2], img[y][x][3]>>]]

\* The bounding boxes of the objects whose centre is not above the height
\* threshold: the rectangle cv2.boxPoints gives for an unrotated box,
\* truncated to integers, filled, and its contour drawn with the thickness.
DrawObjects(img, thickness) ==
    LET obj_bboxes == {o \in ObjSet : ~(t_objs[o].cz > nav_cfg.obj_height_threshold)}
        OnImage(o) ==
            LET cx == SceneToImage(t_objs[o].cx - t_floor_center.x)
                cy == SceneToImage(-(t_objs[o].cy - t_floor_center.y))
                w  == TruncDiv(t_objs[o].ex * half_image_resolution, get_scale)
                h  == TruncDiv(t_objs[o].ey * half_image_resolution, get_scale)
                g  == thickness \div 2
            IN  Rect(TruncDiv(2 * cx - w, 2) - g, TruncDiv(2 * cy - h, 2) - g,
                     TruncDiv(2 * cx + w, 2) + g, TruncDiv(2 * cy + h, 2) + g)
    IN  FillRects(img, {OnImage(o) : o \in obj_bboxes}, nav_cfg.obj_color)

\* The exhaustive pixel scan: tuple(image[i][j]) == colour.
obj_pixel_count(img) ==
    Cardinality({p \in Pixels : PyEq(PyTuple(At(img, p)), nav_cfg.obj_color)})

\* The elif branch: reached only by pixels that are not object pixels.
floor_pixel_count(img) ==
    Cardinality({p \in Pixels :
        /\ ~PyEq(PyTuple(At(img, p)), nav_cfg.obj_color)
        /\ PyEq(PyTuple(At(img, p)), nav_cfg.floor_color)})

\* image[:, :, 0] after the objects are drawn.
WalkableMap(img) == [y \in Axis |-> [x \in Axis |-> img[y][x][1]]]

Foreground(map) == {p \in Pixels : At(map, p) # 0}

RECURSIVE Grow(_, _, _)
Grow(seen, frontier, walk) ==
    IF frontier = {}
    THEN seen
    ELSE LET Neighbours8(p) ==
                 {<<p[1] + dx, p[2] + dy>> : dx \in {-1, 0, 1}, dy \in {-1, 0, 1}}
             next == (UNION {Neighbours8(p) : p \in frontier} \cap walk) \ seen
         IN  Grow(seen \cup next, next, walk)

\* The labels 1 .. num_labels - 1 of connectedComponentsWithStats with
\* connectivity 8, each as its set of pixels.
RECURSIVE ConnectedComponents(_)
ConnectedComponents(walk) ==
    IF walk = {}
    THEN <<>>
    ELSE LET p == CHOOSE q \in walk : TRUE
             c == Grow({p}, {p}, walk)
         IN  <<c>> \o ConnectedComponents(walk \ c)

MapSum_WholeImage(map) == 255 * Cardinality(Pixels)

\* map.sum() of a uint8 array: accumulated in 64 bits.
MapSum(map) ==
    LET RECURSIVE SumOver(_)
        SumOver(vals) ==
            IF vals = {}
            THEN 0
            ELSE LET v == CHOOSE w \in vals : TRUE
                 IN  v * Cardinality({p \in Pixels : At(map, p) = v})
                     + SumOver(vals \ {v})
    IN  SumOver({At(map, p) : p \in Pixels} \ {0})

\* walkable_map_max.sum() after the loop over the labels; the mask of a
\* label holds 255 on its pixels.
RECURSIVE MaxMaskSum(_, _)
MaxMaskSum(components, best) ==
    IF components = <<>>
    THEN best
    ELSE MaxMaskSum(Tail(components),
                    IF 255 * Cardinality(Head(components)) > best
                    THEN 255 * Cardinality(Head(components)) ELSE best)

NavRate(map, components) ==
    IF Len(components) > 0
    THEN [num |-> MaxMaskSum(components, 0), den |-> MapSum(map)]
    ELSE [num |-> 0, den |-> 1]

\* Lines 122-134: the blank image and the floor faces.
NavDrawFloor(r) ==
    /\ nav_pc[r] = "idle"
    /\ image' = [image EXCEPT ![r] =
           DrawFloor([y \in Axis |-> [x \in Axis |-> <<0, 0, 0>>]])]
    /\ nav_pc' = [nav_pc EXCEPT ![r] = "erode"]
    /\ UNCHANGED <<scene, nav_cfg, robot_width, object_area_ratio, nav_error, nav_result>>
    /\ UNCHANGED nonNavVars

\* Lines 144-146: the floor is eroded by the robot's width.
NavErode(r) ==
    /\ nav_pc[r] = "erode"
    /\ LET width == TruncDiv(nav_cfg.robot_width * half_image_resolution, get_scale)
       IN  /\ robot_width' = [robot_width EXCEPT ![r] = width]
           /\ image' = [image EXCEPT ![r] = ErodeChannel0(image[r], width)]
    /\ nav_pc' = [nav_pc EXCEPT ![r] = "objects"]
    /\ UNCHANGED <<scene, nav_cfg, object_area_ratio, nav_error, nav_result>>
    /\ UNCHANGED nonNavVars

\* Lines 157-189: the bounding boxes of the objects are drawn.
NavDrawObjects(r) ==
    /\ nav_pc[r] = "objects"
    /\ image' = [image EXCEPT ![r] = DrawObjects(image[r], robot_width[r])]
    /\ nav_pc' = [nav_pc EXCEPT ![r] = "area"]
    /\ UNCHANGED <<scene, nav_cfg, robot_width, object_area_ratio, nav_error, nav_result>>
    /\ UNCHANGED nonNavVars

\* Lines 199-208: the optional object-area scan; the division is one of
\* Python integers and raises ZeroDivisionError on a zero divisor.
NavObjectArea(r) ==
    /\ nav_pc[r] = "area"
    /\ IF ~nav_cfg.calculate_object_area
       THEN /\ nav_pc' = [nav_pc EXCEPT ![r] = "components"]
            /\ UNCHANGED <<object_area_ratio, nav_error>>
       ELSE IF floor_pixel_count(image[r]) + obj_pixel_count(image[r]) = 0
       THEN /\ nav_pc' = [nav_pc EXCEPT ![r] = "raised"]
            /\ nav_error' = [nav_error EXCEPT ![r] = "ZeroDivisionError"]
            /\ UNCHANGED object_area_ratio
       ELSE /\ nav_pc' = [nav_pc EXCEPT ![r] = "components"]
            /\ object_area_ratio' =
                   [object_area_ratio EXCEPT ![r] =
                       [num |-> obj_pixel_count(image[r]),
                        den |-> floor_pixel_count(image[r]) + obj_pixel_count(image[r])]]
            /\ UNCHANGED nav_error
    /\ UNCHANGED <<scene, nav_cfg, image, robot_width, nav_result>>
    /\ UNCHANGED nonNavVars

\* Lines 211-265: the connected components, the rate and the result.
NavComponents(r) ==
    /\ nav_pc[r] = "components"
    /\ LET walkable_map == WalkableMap(image[r])
           components == ConnectedComponents(Foreground(walkable_map))
           rate == NavRate(walkable_map, components)
       IN  nav_result' = [nav_result EXCEPT ![r] =
               IF nav_cfg.calculate_object_area
               THEN [navigability |-> rate, connected_components |-> Len(components),
                     object_area_ratio |-> object_area_ratio[r]]
               ELSE [navigability |-> rate, connected_components |-> Len(components)]]
    /\ nav_pc' = [nav_pc EXCEPT ![r] = "done"]
    /\ UNCHANGED <<scene, nav_cfg, image, robot_width, object_area_ratio, nav_error>>
    /\ UNCHANGED nonNavVars

InitNav ==
    /\ nav_pc = [r \in Runs |-> "idle"]
    /\ image = [r \in Runs |-> <<>>]
    /\ robot_width = [r \in Runs |-> 0]
    /\ object_area_ratio = [r \in Runs |-> [num |-> 0, den |-> 0]]
    /\ nav_error = [r \in Runs |-> "none"]
    /\ nav_result = [r \in Runs |-> NoResult]

\* The bounding box of an object seen from above (mm).
NavBox(cx, cy, cz, ex, ey) ==
    [kind |-> "bbox", cx |-> cx, cy |-> cy, cz |-> cz, ex |-> ex, ey |-> ey]

\* Objects: none, a 1 m x 1 m box at the origin, a bar across the whole
\* room, a lamp under the ceiling, a box and a bar.  Floors: a 4 m x 4 m
\* square, two rooms of different size, and a floor narrower than the robot.
NavScenes ==
    {[obj_ids |-> ObjIdsOf(Len(objs)),
      t_objs |-> objs,
      t_architecture |-> [a \in {FloorId(n) : n \in 1..Len(floors)} |-> floors[a.n]]]
        : objs \in {<<>>,
                    <<NavBox(0, 0, 500, 1000, 1000)>>,
                    <<NavBox(0, 0, 500, 400, 6000)>>,
                    <<NavBox(0, 0, 2500, 1000, 1000)>>,
                    <<NavBox(0, 0, 500, 1000, 1000), NavBox(1000, 0, 500, 400, 6000)>>},
          floors \in {<<Rect(-2000, -2000, 2000, 2000)>>,
                      <<Rect(-2000, -2000, -400, 2000), Rect(400, -2000, 1600, 2000)>>,
                      <<Rect(-100, -100, 100, 100)>>}}

\* ------------------------------------------------------- opening clearance
\* OpeningClearanceMetric (src/metrics/opening_clearance.py).  The openings
\* of a scene stand in one wall, the plane v = 0: u runs along the wall, v
\* is the depth (the front of an opening is the side of negative v) and w is
\* the height.  An opening is its centre (u, w) on the wall and its extents
\* (width, depth, height); a floor element is a rectangle of the (u, v)
\* plane; an object has a bounding box and a mesh whose faces are
\* axis-aligned patches, each with its range on the three axes.

OpeningClearanceMetricConfig(door_check, window_check, room_side_only, use_width) ==
    [within_room_point_offset |-> 100,
     map_pixel_per_meter |-> 4,
     door_check |-> door_check,
     door_room_side_only |-> room_side_only,
     door_use_width_as_extrude |-> use_width,
     door_extrude_distance |-> 1000,
     window_check |-> window_check,
     window_room_side_only |-> room_side_only,
     window_front_extrude_distance |-> 500]

DefaultOpeningConfig == OpeningClearanceMetricConfig(TRUE, TRUE, TRUE, TRUE)

OpeningConfigs ==
    {DefaultOpeningConfig,
     OpeningClearanceMetricConfig(TRUE, TRUE, FALSE, TRUE),
     OpeningClearanceMetricConfig(TRUE, FALSE, TRUE, FALSE),
     OpeningClearanceMetricConfig(FALSE, TRUE, FALSE, TRUE)}

Box3(u0, u1, v0, v1, w0, w1) ==
    [u0 |-> u0, u1 |-> u1, v0 |-> v0, v1 |-> v1, w0 |-> w0, w1 |-> w1]

\* arch_id.startswith("door"), arch_id.startswith("window")
IsDoorId(arch_id) == arch_id.kind = "door"

IsWindowId(arch_id) == arch_id.kind = "window"

\* The keys of t_architecture of one kind, in the order of the dictionary.
RECURSIVE IdsInOrder(_)
IdsInOrder(ids) ==
    IF ids = {}
    THEN <<>>
    ELSE LET a == CHOOSE x \in ids : \A y \in ids : x.n <= y.n
         IN  <<a>> \o IdsInOrder(ids \ {a})

get_arch_bbox_center(arch_id) ==
    [u |-> t_architecture[arch_id].u, v |-> 0, w |-> t_architecture[arch_id].w]

\* (width, depth, height) of an architecture element; a floor element is
\* flat.
get_default_pose_arch_bbox_extents(arch_id) ==
    IF IsFloorId(arch_id)
    THEN <<t_architecture[arch_id].x1 - t_architecture[arch_id].x0,
           t_architecture[arch_id].y1 - t_architecture[arch_id].y0, 0>>
    ELSE <<t_architecture[arch_id].width, t_architecture[arch_id].depth,
           t_architecture[arch_id].height>>

\* Both directions whatever the floor is.
get_opening_directions_Both(arch_id, into_room_only) == <<"front", "back">>

\* front_direction and back_direction; with into_room_only, those for which
\* the downward ray from the point offset along the direction hits the
\* floor, that is, a floor element lies under the point.
get_opening_directions(arch_id, into_room_only) ==
    LET RayHitsFloor(d) ==
            \E f \in nav_t_floor :
                InRect(<<get_arch_bbox_center(arch_id).u,
                         (IF d = "front" THEN -1 ELSE 1) * op_cfg.within_room_point_offset>>, f)
    IN  IF ~into_room_only
        THEN <<"front", "back">>
        ELSE SelectSeq(<<"front", "back">>, RayHitsFloor)

OpeningType_GuessWindow(opening_id) ==
    IF IsDoorId(opening_id) THEN "door" ELSE "window"

OpeningType(opening_id) ==
    IF IsDoorId(opening_id) THEN "door"
    ELSE IF IsWindowId(opening_id) THEN "window"
    ELSE "None"

Raised(e) == [raised |-> TRUE, error |-> e]

Value(x) == [raised |-> FALSE, value |-> x]

\* Lines 130-132 left out: the thickness is never added.
get_opening_extrude_distance_NoThickness(opening_id, with_thickness) ==
    IF OpeningType(opening_id) \notin {"door", "window"}
    THEN Raised("ValueError")
    ELSE Value(IF OpeningType(opening_id) = "door"
               THEN IF op_cfg.door_use_width_as_extrude
                    THEN get_default_pose_arch_bbox_extents(opening_id)[1]
                    ELSE op_cfg.door_extrude_distance
               ELSE op_cfg.window_front_extrude_distance)

get_opening_extrude_distance(opening_id, with_thickness) ==
    LET opening_type == OpeningType(opening_id)
    IN  IF opening_type \notin {"door", "window"}
        THEN Raised("ValueError")
        ELSE LET extrude_distance ==
                     IF opening_type = "door"
                     THEN IF op_cfg.door_use_width_as_extrude
                          THEN get_default_pose_arch_bbox_extents(opening_id)[1]
                          ELSE op_cfg.door_extrude_distance
                     ELSE op_cfg.window_front_extrude_distance
                 half_opening_thickness ==
                     get_default_pose_arch_bbox_extents(opening_id)[2] \div 2
             IN  Value(IF with_thickness
                       THEN extrude_distance + half_opening_thickness
                       ELSE extrude_distance)

\* opening_uvw_min and opening_uvw_max on the wall, from the centre and the
\* extents of the opening.
OpeningMin(opening_id) ==
    [u |-> get_arch_bbox_center(opening_id).u
           - get_default_pose_arch_bbox_extents(opening_id)[1] \div 2,
     w |-> get_arch_bbox_center(opening_id).w
           - get_default_pose_arch_bbox_extents(opening_id)[3] \div 2]

OpeningMax(opening_id) ==
    [u |-> OpeningMin(opening_id).u + get_default_pose_arch_bbox_extents(opening_id)[1],
     w |-> OpeningMin(opening_id).w + get_default_pose_arch_bbox_extents(opening_id)[3]]

\* The opening, extruded along the depth axis on one of its sides.
clearance_bbox(opening_id, side_direction) ==
    LET e == get_opening_extrude_distance(opening_id, TRUE).value
    IN  Box3(OpeningMin(opening_id).u, OpeningMax(opening_id).u,
             IF side_direction = "front" THEN -e ELSE 0,
             IF side_direction = "front" THEN 0 ELSE e,
             OpeningMin(opening_id).w, OpeningMax(opening_id).w)

BoxesMeet(a, b) ==
    /\ a.u0 <= b.u1 /\ b.u0 <= a.u1
    /\ a.v0 <= b.v1 /\ b.v0 <= a.v1
    /\ a.w0 <= b.w1 /\ b.w0 <= a.w1

\* The common part of the two boxes has a volume.
BoxesOverlap(a, b) ==
    /\ Max(a.u0, b.u0) < Min(a.u1, b.u1)
    /\ Max(a.v0, b.v0) < Min(a.v1, b.v1)
    /\ Max(a.w0, b.w0) < Min(a.w1, b.w1)

\* np.any(clearance_bbox.contains(obj_bbox.sample_points())): a sample lies
\* in the clearance box when the boxes share a volume, none does when they
\* are apart, and it depends on the sample when they only share a face.
ContainsOutcomes_Always(obj_bbox, clearance) == {TRUE}

ContainsOutcomes(obj_bbox, clearance) ==
    IF ~BoxesMeet(obj_bbox, clearance) THEN {FALSE}
    ELSE IF BoxesOverlap(obj_bbox, clearance) THEN {TRUE}
    ELSE BOOLEAN

\* The pixels of the opening's image: np.ceil of its size in metres times
\* the pixels per metre, along the wall and in height.
opening_map(opening_id) ==
    LET CeilDiv(a, b) == (a + b - 1) \div b
        image_width ==
            CeilDiv((OpeningMax(opening_id).u - OpeningMin(opening_id).u)
                    * op_cfg.map_pixel_per_meter, 1000)
        image_height ==
            CeilDiv((OpeningMax(opening_id).w - OpeningMin(opening_id).w)
                    * op_cfg.map_pixel_per_meter, 1000)
    IN  (0..(image_width - 1)) \X (0..(image_height - 1))

\* The mask with strict comparisons: a face that only touches an end of
\* the extrusion interval is left out.
interfering_faces_Strict(obj_id, opening_id, side_direction) ==
    LET extrude_distance == get_opening_extrude_distance(opening_id, TRUE).value
    IN  {f \in t_objs[obj_id].faces :
            IF side_direction = "front"
            THEN f.v0 < 0 /\ f.v1 > -extrude_distance
            ELSE f.v0 < extrude_distance /\ f.v1 > 0}

\* The faces selected by interfering_obj_triangle_mask.
interfering_faces(obj_id, opening_id, side_direction) ==
    LET extrude_distance == get_opening_extrude_distance(opening_id, TRUE).value
    IN  {f \in t_objs[obj_id].faces :
            IF side_direction = "front"
            THEN f.v0 <= 0 /\ f.v1 >= -extrude_distance
            ELSE f.v0 <= extrude_distance /\ f.v1 >= 0}

\* The pixels cv2.fillConvexPoly sets for the faces of one object; the
\* image coordinates are _scene_to_image_coordinates, whose astype(np.int32)
\* truncates toward zero.
occupancy_map(obj_id, opening_id, side_direction) ==
    LET ImageX(u) ==
            TruncDiv((u - OpeningMin(opening_id).u) * op_cfg.map_pixel_per_meter, 1000)
        ImageY(w) ==
            TruncDiv((OpeningMax(opening_id).w - w) * op_cfg.map_pixel_per_meter, 1000)
    IN  {p \in opening_map(opening_id) :
            \E f \in interfering_faces(obj_id, opening_id, side_direction) :
                /\ ImageX(f.u0) <= p[1] /\ p[1] <= ImageX(f.u1)
                /\ ImageY(f.w1) <= p[2] /\ p[2] <= ImageY(f.w0)}

\* Only an object with a face in the extrusion interval gets a map.
project_interfering_objs_to_opening_2d(opening_id, ids, side_direction) ==
    [o \in {ids[k] : k \in {j \in 1..Len(ids) :
                interfering_faces(ids[j], opening_id, side_direction) # {}}} |->
        occupancy_map(o, opening_id, side_direction)]

CombinedMap_First(maps) == maps[CHOOSE o \in DOMAIN maps : TRUE]

\* combined_occupancy_map |= occupancy_map, over all the maps
CombinedMap(maps) == UNION {maps[o] : o \in DOMAIN maps}

summarize_occlusion_info(maps, opening_size) ==
    IF DOMAIN maps = {}
    THEN Value([opening_occluded |-> FALSE,
                total_occlusion |-> [num |-> 0, den |-> 1],
                object_occlusions |-> <<>>])
    ELSE IF opening_size = 0
    THEN Raised("ZeroDivisionError")
    ELSE Value([opening_occluded |-> TRUE,
                total_occlusion |->
                    [num |-> Cardinality(CombinedMap(maps)), den |-> opening_size],
                object_occlusions |->
                    [o \in DOMAIN maps |->
                        [num |-> Cardinality(maps[o]), den |-> opening_size]]])

\* ("door", door_ids) if doors are checked, then ("window", window_ids).
OpeningsToProcess ==
    LET door_ids == IdsInOrder({a \in DOMAIN t_architecture : IsDoorId(a)})
        window_ids == IdsInOrder({a \in DOMAIN t_architecture : IsWindowId(a)})
    IN  (IF op_cfg.door_check
         THEN [k \in 1..Len(door_ids) |-> [type |-> "door", id |-> door_ids[k]]]
         ELSE <<>>)
        \o
        (IF op_cfg.window_check
         THEN [k \in 1..Len(window_ids) |-> [type |-> "window", id |-> window_ids[k]]]
         ELSE <<>>)

RoomSideOnly(opening_type) ==
    IF opening_type = "door" THEN op_cfg.door_room_side_only
    ELSE op_cfg.window_room_side_only

\* Every entry stored under door_clearance.
StoreEntry_DoorKey(data, opening, entry) ==
    [data EXCEPT !.door_clearance =
        [x \in DOMAIN @ \cup {opening.id} |->
            IF x = opening.id
            THEN (IF opening.id \in DOMAIN @ THEN @[opening.id] ELSE <<>>) \o <<entry>>
            ELSE @[x]]]

\* result.data[clearance_key].setdefault(opening_id, []).append(entry)
StoreEntry(data, opening, entry) ==
    LET append(d) == Extend(d, opening.id,
                            (IF opening.id \in DOMAIN d THEN d[opening.id] ELSE <<>>)
                            \o <<entry>>)
    IN  IF opening.type = "door"
        THEN [data EXCEPT !.door_clearance = append(@)]
        ELSE [data EXCEPT !.window_clearance = append(@)]

\* Lines 465-495: the result and the openings to process.
OpeningStart(r) ==
    /\ op_pc[r] = "idle"
    /\ op_todo' = [op_todo EXCEPT ![r] = OpeningsToProcess]
    /\ op_result' = [op_result EXCEPT ![r] =
           [check_doors |-> op_cfg.door_check,
            door_room_side_only |-> op_cfg.door_room_side_only,
            check_windows |-> op_cfg.window_check,
            window_room_side_only |-> op_cfg.window_room_side_only,
            door_clearance |-> <<>>,
            window_clearance |-> <<>>]]
    /\ op_pc' = [op_pc EXCEPT ![r] = "opening"]
    /\ UNCHANGED <<scene, op_cfg, op_cur, op_dirs, interfering_obj_ids, occupancy_maps,
                   op_error, extrude_call>>
    /\ UNCHANGED nonOpeningVars

\* Lines 420-424: the next opening and the directions to check for it.
OpeningDirections(r) ==
    /\ op_pc[r] = "opening"
    /\ op_todo[r] # <<>>
    /\ LET opening == Head(op_todo[r])
           directions_to_check ==
               get_opening_directions(opening.id, RoomSideOnly(opening.type))
       IN  /\ op_cur' = [op_cur EXCEPT ![r] = opening]
           /\ op_dirs' = [op_dirs EXCEPT ![r] = directions_to_check]
           /\ op_pc' = [op_pc EXCEPT ![r] =
                  IF directions_to_check = <<>> THEN "opening" ELSE "side"]
    /\ op_todo' = [op_todo EXCEPT ![r] = Tail(@)]
    /\ UNCHANGED <<scene, op_cfg, interfering_obj_ids, occupancy_maps, op_error,
                   op_result, extrude_call>>
    /\ UNCHANGED nonOpeningVars

\* Line 436: the objects that interfere with one side of the opening.
OpeningInterference(r) ==
    /\ op_pc[r] = "side"
    /\ \E contains \in [ObjSet -> BOOLEAN] :
        /\ \A o \in ObjSet :
               contains[o] \in ContainsOutcomes(t_objs[o].bbox,
                                   clearance_bbox(op_cur[r].id, Head(op_dirs[r])))
        /\ interfering_obj_ids' =
               [interfering_obj_ids EXCEPT ![r] =
                   SelectSeq(get_obj_ids, LAMBDA o : contains[o])]
    /\ op_pc' = [op_pc EXCEPT ![r] = "project"]
    /\ UNCHANGED <<scene, op_cfg, op_todo, op_cur, op_dirs, occupancy_maps, op_error,
                   op_result, extrude_call>>
    /\ UNCHANGED nonOpeningVars

\* Line 441: the occupancy maps of the interfering objects.  Drawing on an
\* image without pixels is outside what cv2.fillConvexPoly defines: it may
\* fail or do nothing.
OpeningProject(r) ==
    /\ op_pc[r] = "project"
    /\ LET maps == project_interfering_objs_to_opening_2d(
                       op_cur[r].id, interfering_obj_ids[r], Head(op_dirs[r]))
       IN  \E outcome \in (IF DOMAIN maps # {} /\ opening_map(op_cur[r].id) = {}
                           THEN {"ok", "cv2.error"} ELSE {"ok"}) :
               /\ occupancy_maps' = [occupancy_maps EXCEPT ![r] = maps]
               /\ op_pc' = [op_pc EXCEPT ![r] =
                      IF outcome = "ok" THEN "summarize" ELSE "raised"]
               /\ op_error' = [op_error EXCEPT ![r] =
                      IF outcome = "ok" THEN @ ELSE outcome]
    /\ UNCHANGED <<scene, op_cfg, op_todo, op_cur, op_dirs, interfering_obj_ids,
                   op_result, extrude_call>>
    /\ UNCHANGED nonOpeningVars

\* Lines 442-451: the occlusion summary of the side and its result entry.
OpeningSummarize(r) ==
    /\ op_pc[r] = "summarize"
    /\ LET occlusion_info ==
               summarize_occlusion_info(occupancy_maps[r],
                                        Cardinality(opening_map(op_cur[r].id)))
       IN  IF occlusion_info.raised
           THEN /\ op_pc' = [op_pc EXCEPT ![r] = "raised"]
                /\ op_error' = [op_error EXCEPT ![r] = occlusion_info.error]
                /\ UNCHANGED <<op_dirs, op_result>>
           ELSE /\ op_result' = [op_result EXCEPT ![r] =
                       StoreEntry(@, op_cur[r],
                                  [direction |-> Head(op_dirs[r]),
                                   interfering_obj_ids |-> interfering_obj_ids[r],
                                   occlusion_info |-> occlusion_info.value])]
                /\ op_dirs' = [op_dirs EXCEPT ![r] = Tail(@)]
                /\ op_pc' = [op_pc EXCEPT ![r] =
                       IF Tail(op_dirs[r]) = <<>> THEN "opening" ELSE "side"]
                /\ UNCHANGED op_error
    /\ UNCHANGED <<scene, op_cfg, op_todo, op_cur, interfering_obj_ids, occupancy_maps,
                   extrude_call>>
    /\ UNCHANGED nonOpeningVars

\* Lines 501-511: every opening is processed; the result is returned.
OpeningReturn(r) ==
    /\ op_pc[r] = "opening"
    /\ op_todo[r] = <<>>
    /\ op_pc' = [op_pc EXCEPT ![r] = "done"]
    /\ UNCHANGED <<scene, op_cfg, op_todo, op_cur, op_dirs, interfering_obj_ids,
                   occupancy_maps, op_error, op_result, extrude_call>>
    /\ UNCHANGED nonOpeningVars

\* A call of _get_opening_extrude_distance on an architecture element of
\* the scene.
OpeningExtrudeDistance(r) ==
    /\ op_pc[r] = "done"
    /\ ~extrude_call[r].called
    /\ \E opening_id \in DOMAIN t_architecture, with_thickness \in BOOLEAN :
           extrude_call' = [extrude_call EXCEPT ![r] =
               [called |-> TRUE, opening_id |-> opening_id,
                with_thickness |-> with_thickness,
                outcome |-> get_opening_extrude_distance(opening_id, with_thickness)]]
    /\ UNCHANGED <<scene, op_cfg, op_pc, op_todo, op_cur, op_dirs, interfering_obj_ids,
                   occupancy_maps, op_error, op_result>>
    /\ UNCHANGED nonOpeningVars

InitOpening ==
    /\ op_pc = [r \in Runs |-> "idle"]
    /\ op_todo = [r \in Runs |-> <<>>]
    /\ op_cur = [r \in Runs |-> [type |-> "None", id |-> [kind |-> "None", n |-> 0]]]
    /\ op_dirs = [r \in Runs |-> <<>>]
    /\ interfering_obj_ids = [r \in Runs |-> <<>>]
    /\ occupancy_maps = [r \in Runs |-> [o \in {} |-> {}]]
    /\ op_error = [r \in Runs |-> "none"]
    /\ op_result = [r \in Runs |-> NoResult]
    /\ extrude_call = [r \in Runs |-> [called |-> FALSE]]

\* ---- scenes with openings

OpeningElement(u, w, width, depth, height) ==
    [u |-> u, w |-> w, width |-> width, depth |-> depth, height |-> height]

\* Objects.  SolidMesh: a mesh that fills its bounding box, the faces of a
\* box.  RoundTable: a round table turned by 45 degrees, a corner of whose
\* bounding box comes nearer to the wall than any of its faces.  A cabinet
\* in front of the left half of the door at u = 0, a shelf before its lower
\* half, a table whose bounding box alone reaches the door's clearance, a
\* sofa behind the wall, a chest that touches the clearance box from the
\* side, a desk under the window at u = -3000, a crate whose near face
\* lies 1.1 m from the wall, where the door's extrusion ends, and a plant
\* far from every opening.
\* Architecture.  A door 1 m wide and 2 m high, at u = 0 or u = 3000; a
\* door without width; a window 1.5 m wide and 1 m high, its centre 1.5 m
\* above the floor; the wall the openings stand in, 16 m long, 0.2 m thick
\* and 3 m high; the room lies in front of the wall, on both of its sides,
\* or in front of it up to u = 2000 with a second room behind the door at
\* u = 0.
OpeningScenes ==
    LET SolidMesh(b) ==
            [kind |-> "mesh", bbox |-> b,
             faces |-> {Box3(b.u0, b.u1, b.v0, b.v0, b.w0, b.w1),
                        Box3(b.u0, b.u1, b.v1, b.v1, b.w0, b.w1),
                        Box3(b.u0, b.u0, b.v0, b.v1, b.w0, b.w1),
                        Box3(b.u1, b.u1, b.v0, b.v1, b.w0, b.w1),
                        Box3(b.u0, b.u1, b.v0, b.v1, b.w0, b.w0),
                        Box3(b.u0, b.u1, b.v0, b.v1, b.w1, b.w1)}]
        RoundTable(b, gap) ==
            [kind |-> "mesh", bbox |-> b,
             faces |-> SolidMesh(Box3(b.u0 + gap, b.u1 - gap, b.v0 + gap, b.v1 - gap,
                                      b.w0, b.w1)).faces]
        Cabinet == SolidMesh(Box3(-500, 0, -600, -100, 0, 2000))
        Shelf == SolidMesh(Box3(-500, 500, -400, -100, 0, 1000))
        Table == RoundTable(Box3(-400, 400, -1800, -1000, 0, 800), 200)
        Sofa == SolidMesh(Box3(-500, 500, 100, 900, 0, 800))
        Chest == SolidMesh(Box3(500, 1200, -600, -100, 0, 800))
        Desk == SolidMesh(Box3(-3500, -2800, -500, -100, 0, 1250))
        Crate == SolidMesh(Box3(-400, 400, -1600, -1100, 0, 800))
        Plant == SolidMesh(Box3(6000, 6400, -3000, -2600, 0, 1000))
        Door(u) == OpeningElement(u, 1000, 1000, 200, 2000)
        FlatDoor(u) == OpeningElement(u, 1000, 0, 200, 2000)
        Window(u) == OpeningElement(u, 1500, 1500, 200, 1000)
        WallElement == OpeningElement(0, 1500, 16000, 200, 3000)
        OpeningId(kind, n) == [kind |-> kind, n |-> n]
        OpeningElementChoices ==
            {<<OpeningId("door", 1), Door(0)>>,
             <<OpeningId("door", 1), FlatDoor(0)>>,
             <<OpeningId("door", 2), Door(3000)>>,
             <<OpeningId("window", 1), Window(-3000)>>}
        OpeningArchitecture(openings, floors) ==
            [a \in {x[1] : x \in openings} \cup {FloorId(n) : n \in 1..Len(floors)}
                   \cup {WallId} |->
                IF IsFloorId(a) THEN floors[a.n]
                ELSE IF a = WallId THEN WallElement
                ELSE (CHOOSE x \in openings : x[1] = a)[2]]
    IN  {[obj_ids |-> ObjIdsOf(Len(objs)),
          t_objs |-> objs,
          t_architecture |-> OpeningArchitecture(openings, floors)]
            : objs \in {<<>>, <<Plant>>, <<Cabinet>>, <<Table>>, <<Chest>>, <<Crate>>,
                        <<Cabinet, Shelf>>, <<Sofa, Cabinet>>, <<Desk, Chest>>,
                        <<Shelf, Plant, Table>>},
              openings \in {s \in SUBSET OpeningElementChoices :
                               \A x, y \in s : x[1] = y[1] => x = y},
              floors \in {<<Rect(-8000, -5000, 8000, 0)>>,
                          <<Rect(-8000, -5000, 8000, 0), Rect(-8000, 0, 8000, 5000)>>,
                          <<Rect(-8000, -5000, 2000, 0), Rect(-1000, 0, 1000, 5000)>>}}

\* --------------------------------------------------------- specification

vars == <<scene, collVars, oobVars, navVars, opVars>>

NoArchitecture == [a \in {} |-> {}]

CollisionScenes ==
    UNION {{[obj_ids |-> ObjIdsOf(n), t_objs |-> m, t_architecture |-> NoArchitecture]
              : m \in [1..n -> MeshChoices]}
           : n \in 0..MaxObjs}

InitRun ==
    /\ pc = [r \in Runs |-> "idle"]
    /\ collision_manager = [r \in Runs |-> EmptyManager]
    /\ collision_results = [r \in Runs |-> <<>>]
    /\ i = [r \in Runs |-> 0]
    /\ other_ids = [r \in Runs |-> <<>>]
    /\ locals = [r \in Runs |-> NoLocals]
    /\ calls = [r \in Runs |-> <<>>]
    /\ nan_answers = [x \in {} |-> "none"]
    /\ result = [r \in Runs |-> NoResult]

Init ==
    /\ scene \in CollisionScenes
    /\ nav_cfg = DefaultNavConfig
    /\ InitRun
    /\ InitOob
    /\ InitNav
    /\ op_cfg = DefaultOpeningConfig
    /\ InitOpening

Next ==
    \/ CollisionStart(1)
    \/ CollisionAddObject(1)
    \/ CollisionFirstCheck(1)
    \/ CollisionDoubleCheck(1)
    \/ CollisionRemoveObject(1)
    \/ CollisionSummarize(1)

Spec == Init /\ [][Next]_vars

\* run called twice in succession on the same metric: the second call
\* starts when the first has returned.
SuccessiveNext ==
    \/ CollisionRun(1)
    \/ pc[1] = "done" /\ CollisionRun(2)

SuccessiveSpec == Init /\ [][SuccessiveNext]_vars

\* Two calls of run whose steps interleave in any order, on scenes of unit
\* cubes that coincide, overlap, touch or are apart.
ConcurrentInit ==
    /\ Init
    /\ \A o \in ObjSet : t_objs[o] \in {UnitCube(c) : c \in {0, 500, 1000, 2600}}

ConcurrentNext == \E r \in Runs : CollisionRun(r)

ConcurrentSpec == ConcurrentInit /\ [][ConcurrentNext]_vars

OobInit ==
    /\ scene \in OobScenes
    /\ nav_cfg = DefaultNavConfig
    /\ InitRun
    /\ InitOob
    /\ InitNav
    /\ op_cfg = DefaultOpeningConfig
    /\ InitOpening

OobNext ==
    \/ OobStart(1)
    \/ OobSample(1)
    \/ OobRayCast(1)
    \/ OobReturn(1)

OobSpec == OobInit /\ [][OobNext]_vars

NavInit ==
    /\ scene \in NavScenes
    /\ nav_cfg \in NavConfigs
    /\ InitRun
    /\ InitOob
    /\ InitNav
    /\ op_cfg = DefaultOpeningConfig
    /\ InitOpening

NavNext ==
    \/ NavDrawFloor(1)
    \/ NavErode(1)
    \/ NavDrawObjects(1)
    \/ NavObjectArea(1)
    \/ NavComponents(1)

NavSpec == NavInit /\ [][NavNext]_vars

OpeningInit ==
    /\ scene \in OpeningScenes
    /\ nav_cfg = DefaultNavConfig
    /\ op_cfg \in OpeningConfigs
    /\ InitRun
    /\ InitOob
    /\ InitNav
    /\ InitOpening

OpeningNext ==
    \/ OpeningStart(1)
    \/ OpeningDirections(1)
    \/ OpeningInterference(1)
    \/ OpeningProject(1)
    \/ OpeningSummarize(1)
    \/ OpeningReturn(1)
    \/ OpeningExtrudeDistance(1)

OpeningSpec == OpeningInit /\ [][OpeningNext]_vars

\* ----------------------------------------------------------------- claims

InList(x, s) == \E k \in 1..Len(s) : s[k] = x

Returned(r) == pc[r] = "done"

CollidingWith(r, o) == result[r].collision_results[o].colliding_with

InCollisionFlag(r, o) == result[r].collision_results[o].in_collision

\* C1: after CollisionMetric.run the collision relation is symmetric: B is
\* in A's colliding_with list if and only if A is in B's.
C1_Symmetric ==
    \A r \in Runs : Returned(r) =>
        \A a \in ObjSet : \A b \in ObjSet :
            InList(b, CollidingWith(r, a)) <=> InList(a, CollidingWith(r, b))

C1_Witness ==
    /\ Returned(1)
    /\ \E a \in ObjSet : \E b \in ObjSet :
          a # b /\ InList(b, CollidingWith(1, a)) /\ InList(a, CollidingWith(1, b))

\* C2: after CollisionMetric.run no object is in its own colliding_with
\* list.
C2_NotWithItself ==
    \A r \in Runs : Returned(r) =>
        \A a \in ObjSet : ~InList(a, CollidingWith(r, a))

C2_Witness ==
    /\ Returned(1)
    /\ NumObjs = MaxObjs
    /\ \A a \in ObjSet : CollidingWith(1, a) # <<>>

\* The first test of the pair (a resident, b the query) is the k-th call.
FirstTestAt(r, k, a, b) ==
    /\ calls[r][k].stage = 1
    /\ a \in calls[r][k].resident
    /\ calls[r][k].query = b

\* The k-th call is the second test of the pair of the call before it, on
\* the other object's copy moved by the configured amount away from the
\* contact points (or with no direction to move it in).
SecondTestAt(r, k) ==
    /\ k > 1
    /\ calls[r][k].stage = 2
    /\ calls[r][k - 1].stage = 1
    /\ calls[r][k - 1].answer = "true"
    /\ calls[r][k].query = calls[r][k - 1].query
    /\ calls[r][k].resident = calls[r][k - 1].resident
    /\ LET orig  == calls[r][k - 1].mesh
           moved == calls[r][k].mesh
           raw   == MoveDirectionRaw(orig,
                        ManagerContacts(t_objs, calls[r][k].resident, orig))
       IN  /\ raw > 0 => moved = [orig EXCEPT !.cx = orig.cx + MoveDirectionAmount]
           /\ raw < 0 => moved = [orig EXCEPT !.cx = orig.cx - MoveDirectionAmount]
           /\ raw = 0 => moved.kind = "nan"

BothTestsPositive(r, a, b) ==
    \E k \in 1..(Len(calls[r]) - 1) :
        /\ FirstTestAt(r, k, a, b)
        /\ calls[r][k].answer = "true"
        /\ SecondTestAt(r, k + 1)
        /\ calls[r][k + 1].answer = "true"

\* C3: a pair is recorded as colliding if and only if its first test is
\* positive and the second test, on the moved copy of the other object, is
\* positive too; a second test is run only after a positive first test of
\* the same pair, and a negative first test records nothing.
C3_RecordedIffBothTests ==
    \A r \in Runs :
        /\ \A k \in 1..Len(calls[r]) : calls[r][k].stage = 2 => SecondTestAt(r, k)
        /\ Returned(r) =>
              \A ka \in 1..NumObjs : \A kb \in (ka + 1)..NumObjs :
                  LET a == get_obj_ids[ka]
                      b == get_obj_ids[kb]
                  IN  /\ InList(b, CollidingWith(r, a)) <=> BothTestsPositive(r, a, b)
                      /\ InList(a, CollidingWith(r, b)) <=> BothTestsPositive(r, a, b)

C3_Witness ==
    /\ Returned(1)
    /\ \E k \in 1..Len(calls[1]) : calls[1][k].stage = 1 /\ calls[1][k].answer = "false"
    /\ \E k \in 1..Len(calls[1]) : calls[1][k].stage = 2 /\ calls[1][k].answer = "false"
                                      /\ calls[1][k].mesh.kind = "box"
    /\ \E k \in 1..Len(calls[1]) : calls[1][k].stage = 2 /\ calls[1][k].answer = "true"
                                      /\ calls[1][k].mesh.kind = "box"

\* C4: with a positive first test and the mean of the contact points at the
\* other object's centroid, the run does not normalise the zero vector and
\* does not test a copy moved by an undefined direction: the pair gets a
\* defined result and the run does not fail on it.
C4_ZeroVectorGuarded ==
    \A r \in Runs :
        /\ locals[r].zero_vector => locals[r].move_direction # "nan"
        /\ \A k \in 1..Len(calls[r]) : calls[r][k].mesh.kind # "nan"

\* C5: a test that cannot be evaluated leaves its pair not colliding and
\* the run goes on: the failure does not leave run as an error.
C5_FailedTestNotPropagated ==
    \A r \in Runs :
        (/\ calls[r] # <<>>
         /\ calls[r][Len(calls[r])].stage = 1
         /\ calls[r][Len(calls[r])].answer = "raise")
        => pc[r] # "raised"

\* Two unit cubes and nothing else, their centres d apart on the X axis.
TwoUnitCubes(d) ==
    /\ NumObjs = 2
    /\ t_objs[get_obj_ids[1]].kind = "box"
    /\ t_objs[get_obj_ids[2]].kind = "box"
    /\ t_objs[get_obj_ids[1]].half = 500
    /\ t_objs[get_obj_ids[2]].half = 500
    /\ Abs(t_objs[get_obj_ids[1]].cx - t_objs[get_obj_ids[2]].cx) = d

\* C6 as stated: two unit cubes whose centres are 0.5 m apart are reported
\* as not colliding.
C6_HalfMetreApartNotColliding ==
    \A r \in Runs : (Returned(r) /\ TwoUnitCubes(500)) =>
        \A a \in ObjSet : ~InCollisionFlag(r, a) /\ CollidingWith(r, a) = <<>>

\* C6 amended: two unit cubes whose centres are 0.5 m apart overlap by
\* 0.5 m and are reported as colliding, each listing the other; two whose
\* centres are 1 m apart touch and are reported as not colliding.
C6_HalfMetreApartColliding ==
    \A r \in Runs : Returned(r) =>
        /\ TwoUnitCubes(500) =>
              \A a \in ObjSet : \A b \in ObjSet \ {a} :
                  InCollisionFlag(r, a) /\ CollidingWith(r, a) = <<b>>
        /\ TwoUnitCubes(1000) =>
              \A a \in ObjSet : ~InCollisionFlag(r, a) /\ CollidingWith(r, a) = <<>>

C6_Witness ==
    /\ Returned(1)
    /\ TwoUnitCubes(500)
    /\ Len(calls[1]) = 2

\* C7: the summary agrees with the per-object results: num_obj_in_collision
\* counts the objects flagged in_collision, the flag is set exactly for the
\* objects with a non-empty colliding_with list, and scene_in_collision is
\* true iff the count is positive.
C7_SummaryConsistent ==
    \A r \in Runs : Returned(r) =>
        /\ result[r].num_obj_in_collision =
              Cardinality({o \in ObjSet : InCollisionFlag(r, o)})
        /\ \A o \in ObjSet : InCollisionFlag(r, o) <=> CollidingWith(r, o) # <<>>
        /\ result[r].scene_in_collision <=> result[r].num_obj_in_collision > 0

C7_Witness ==
    /\ Returned(1)
    /\ result[1].scene_in_collision
    /\ result[1].num_obj_in_collision < NumObjs

OobReturned(r) == oob_pc[r] = "done"

\* The cells under a floor element, read off the architecture.
FloorCells ==
    {c \in Cells : \E a \in DOMAIN t_architecture : a.kind = "floor" /\ c \in t_architecture[a]}

\* The sample points over some cell of cells.
PointsOver(pts, cells) == CountIn(pts, {c \in Cells : c \in cells})

\* C8: for every object the out-of-bound run reports num_out_of_bound =
\* sampled points minus the hit points of the downward rays, ratio_in_bound
\* = 1 - num_out_of_bound / num_sampled_points, and out_of_bound = true iff
\* ratio_in_bound < 0.99, a ratio of exactly 0.99 being in bound.
C8_OutOfBoundRecord ==
    \A r \in Runs : OobReturned(r) =>
        /\ DOMAIN oob_result[r] = ObjSet
        /\ \A o \in ObjSet :
              LET e    == oob_result[r][o]
                  n    == e.num_sampled_points
                  pts  == sample_points[r][o]
                  hits == ray_hit_pts[r][o]
              IN  /\ n = PointsOver(pts, Cells)
                  /\ n > 0
                  /\ hits - PointsOver(pts, FloorCells) \in 0..MaxSpuriousHits
                  /\ e.num_out_of_bound = n - hits
                  /\ e.ratio_in_bound.den > 0
                  /\ e.ratio_in_bound.num * n = (n - e.num_out_of_bound) * e.ratio_in_bound.den
                  /\ e.out_of_bound <=> (100 * e.ratio_in_bound.num < 99 * e.ratio_in_bound.den)

C8_Witness ==
    /\ OobReturned(1)
    /\ \E o \in ObjSet :
          /\ 100 * oob_result[1][o].ratio_in_bound.num = 99 * oob_result[1][o].ratio_in_bound.den
          /\ ~oob_result[1][o].out_of_bound
    /\ \E o \in ObjSet :
          /\ oob_result[1][o].out_of_bound
          /\ oob_result[1][o].num_out_of_bound > 0
          /\ oob_result[1][o].num_out_of_bound < oob_result[1][o].num_sampled_points

\* C9: when the ray query returns more hit points than there were sample
\* points the run ends in an assertion error and returns nothing; no
\* record of a run has num_out_of_bound < 0 or ratio_in_bound > 1.
C9_HitCountChecked ==
    \A r \in Runs :
        /\ \A o \in DOMAIN ray_hit_pts[r] :
              ray_hit_pts[r][o] > PointsOver(sample_points[r][o], Cells) =>
                  /\ oob_pc[r] = "raised"
                  /\ oob_error[r] = "AssertionError"
                  /\ oob_result[r] = NoResult
        /\ \A o \in DOMAIN evaluations[r] :
              /\ evaluations[r][o].num_out_of_bound >= 0
              /\ evaluations[r][o].ratio_in_bound.num <= evaluations[r][o].ratio_in_bound.den
        /\ OobReturned(r) => oob_result[r] = evaluations[r]

C9_Witness ==
    /\ oob_pc[1] = "raised"
    /\ oob_error[1] = "AssertionError"
    /\ \E o \in DOMAIN ray_hit_pts[1] :
          ray_hit_pts[1][o] = PointsOver(sample_points[1][o], Cells) + 1

\* ratio a is at least ratio b.
RatioGeq(a, b) == a.num * b.den >= b.num * a.den

\* C10: for a fixed object and fixed sample points, a floor that covers a
\* superset of the old one gives a ratio_in_bound that is not smaller, and
\* keeps an in-bound object in bound.
C10_MonotoneInFloor ==
    \A r \in Runs : OobReturned(r) =>
        \A o \in ObjSet :
            LET e   == oob_result[r][o]
                pts == sample_points[r][o]
            IN  ray_hit_pts[r][o] = RayHits(pts, t_floor) =>
                  \A larger \in SUBSET Cells :
                      t_floor \subseteq larger =>
                          LET e2 == Evaluate(NumPoints(pts), RayHits(pts, larger))
                          IN  /\ RatioGeq(e2.ratio_in_bound, e.ratio_in_bound)
                              /\ ~e.out_of_bound => ~e2.out_of_bound

C10_Witness ==
    /\ OobReturned(1)
    /\ \E o \in ObjSet :
          /\ ray_hit_pts[1][o] = PointsOver(sample_points[1][o], FloorCells)
          /\ oob_result[1][o].out_of_bound
          /\ \E larger \in SUBSET Cells :
                /\ FloorCells \subseteq larger
                /\ larger # FloorCells
                /\ PointsOver(sample_points[1][o], larger) = oob_result[1][o].num_sampled_points

\* ------------------------------------------------- claims on navigability

NavReturned(r) == nav_pc[r] = "done"

\* The components of the walkable map of the final image, counted in pixels.
WalkableComponents(r) == ConnectedComponents(Foreground(WalkableMap(image[r])))

LargestPixelCount(components) ==
    IF components = <<>>
    THEN 0
    ELSE SetMax({Cardinality(components[k]) : k \in 1..Len(components)})

\* C11: whatever the scene and the configuration, the navigability value
\* that run returns lies in [0, 1].
C11_RateInUnitInterval ==
    \A r \in Runs :
        NavReturned(r) =>
            /\ 0 <= nav_result[r].navigability.num
            /\ nav_result[r].navigability.num <= nav_result[r].navigability.den

\* C12: the navigability value is the number of pixels of the largest
\* 8-connected component of the walkable map over the number of pixels of
\* the whole walkable map, and 0 when there is no component;
\* connected_components is the number of components without the background.
C12_RateIsPixelCountRatio ==
    \A r \in Runs :
        NavReturned(r) =>
            LET components == WalkableComponents(r)
                walkable == Cardinality(Foreground(WalkableMap(image[r])))
                rate == nav_result[r].navigability
            IN  /\ nav_result[r].connected_components = Len(components)
                /\ IF components = <<>>
                   THEN rate.num = 0 /\ rate.den # 0
                   ELSE rate.num * walkable = LargestPixelCount(components) * rate.den

\* A 4 m x 4 m square floor with one 1 m x 1 m box at its centre and a robot
\* 0.2 m wide.
SquareRoomWithCentreBox ==
    /\ t_architecture = [a \in {FloorId(1)} |-> Rect(-2000, -2000, 2000, 2000)]
    /\ t_objs = <<NavBox(0, 0, 500, 1000, 1000)>>
    /\ nav_cfg.robot_width = 200

\* C13 as stated: in that scene the run reports exactly one connected
\* component and a navigability value strictly between 0 and 1.
C13_OneComponentRateBelowOne ==
    \A r \in Runs :
        (SquareRoomWithCentreBox /\ NavReturned(r)) =>
            /\ nav_result[r].connected_components = 1
            /\ 0 < nav_result[r].navigability.num
            /\ nav_result[r].navigability.num < nav_result[r].navigability.den

\* C13: in that scene the run reports exactly one connected component, the
\* ring around the box, which is the whole walkable map: the navigability
\* value is not below 1, and is exactly 1 with the default floor colour.
C13_OneComponentRateOne ==
    \A r \in Runs :
        (SquareRoomWithCentreBox /\ NavReturned(r)) =>
            /\ nav_result[r].connected_components = 1
            /\ nav_result[r].navigability.num >= nav_result[r].navigability.den
            /\ nav_cfg.floor_color.items[1] = 255 =>
                   nav_result[r].navigability.num = nav_result[r].navigability.den

\* The box is on the image and the floor surrounds it on all four sides.
C13_Witness ==
    /\ SquareRoomWithCentreBox
    /\ NavReturned(1)
    /\ nav_cfg.floor_color.items[1] = 255
    /\ image[1][16][16] = nav_cfg.obj_color.items
    /\ \A p \in {<<4, 16>>, <<28, 16>>, <<16, 4>>, <<16, 28>>} :
           At(image[1], p) = nav_cfg.floor_color.items

\* What a count-nonzero of one colour gives on the final image.
CountOfColor(img, color) == Cardinality({p \in Pixels : At(img, p) = color.items})

\* C14: with calculate_object_area enabled the run completes, and its
\* result holds object_area_ratio = obstacle pixels over obstacle plus floor
\* pixels of the final image.
C14_ObjectAreaRatioReported ==
    \A r \in Runs :
        (nav_cfg.calculate_object_area /\ nav_pc[r] \in {"components", "done", "raised"}) =>
            /\ nav_pc[r] # "raised"
            /\ NavReturned(r) =>
                   /\ nav_result[r].object_area_ratio.num = CountOfColor(image[r], nav_cfg.obj_color)
                   /\ nav_result[r].object_area_ratio.den =
                          CountOfColor(image[r], nav_cfg.obj_color)
                          + CountOfColor(image[r], nav_cfg.floor_color)

\* -------------------------------------------- claims on opening clearance

OpeningReturned(r) == op_pc[r] = "done"

\* The result entries of a run: opening, position in its list, entry.
EntriesOf(clearance) ==
    UNION {{[opening_id |-> a, k |-> k, entry |-> clearance[a][k]]
              : k \in 1..Len(clearance[a])} : a \in DOMAIN clearance}

Entries(r) ==
    IF op_pc[r] = "idle"
    THEN {}
    ELSE EntriesOf(op_result[r].door_clearance)
         \cup EntriesOf(op_result[r].window_clearance)

\* C15: for every checked side of every opening, opening_occluded is true
\* iff interfering_obj_ids of that side is not empty.
C15_OccludedIffInterfering ==
    \A r \in Runs : \A x \in Entries(r) :
        x.entry.occlusion_info.opening_occluded
        <=> x.entry.interfering_obj_ids # <<>>

\* No bounding box of the scene reaches the clearance box of the side.
NothingNear(opening_id, direction) ==
    \A o \in ObjSet : ~BoxesMeet(t_objs[o].bbox, clearance_bbox(opening_id, direction))

\* C16: an opening side with no interfering object yields a normal result
\* and no error: interfering_obj_ids empty, opening_occluded false,
\* total_occlusion 0 and object_occlusions empty.
C16_NoInterferenceNotOccluded ==
    \A r \in Runs :
        /\ \A x \in Entries(r) :
            /\ NothingNear(x.opening_id, x.entry.direction)
                   => x.entry.interfering_obj_ids = <<>>
            /\ x.entry.interfering_obj_ids = <<>> =>
                   /\ ~x.entry.occlusion_info.opening_occluded
                   /\ x.entry.occlusion_info.total_occlusion.num = 0
                   /\ x.entry.occlusion_info.total_occlusion.den # 0
                   /\ x.entry.occlusion_info.object_occlusions = <<>>
        /\ op_pc[r] = "raised" => interfering_obj_ids[r] # <<>>

\* A side of an opening was checked in a scene with objects, none of them
\* near it.
C16_Witness ==
    /\ OpeningReturned(1)
    /\ ObjSet # {}
    /\ \E x \in Entries(1) :
           /\ NothingNear(x.opening_id, x.entry.direction)
           /\ x.entry.interfering_obj_ids = <<>>
           /\ ~x.entry.occlusion_info.opening_occluded

InUnitInterval(f) == 0 <= f.num /\ f.num <= f.den /\ f.den > 0

\* The sum of the numerators of fractions with one denominator.
RECURSIVE SumOfNums(_, _)
SumOfNums(occlusions, ids) ==
    IF ids = {}
    THEN 0
    ELSE LET o == CHOOSE x \in ids : TRUE
         IN  occlusions[o].num + SumOfNums(occlusions, ids \ {o})

\* C17: for every checked side each per-object occlusion and
\* total_occlusion lie in [0, 1], total_occlusion is the filled fraction of
\* the pixel-wise OR of the per-object occupancy maps, at least every
\* per-object value and at most their sum.
C17_OcclusionFractions ==
    \A r \in Runs : \A x \in Entries(r) :
        LET info == x.entry.occlusion_info
            maps == project_interfering_objs_to_opening_2d(
                        x.opening_id, x.entry.interfering_obj_ids, x.entry.direction)
            size == Cardinality(opening_map(x.opening_id))
            filled == {p \in opening_map(x.opening_id) : \E o \in DOMAIN maps : p \in maps[o]}
        IN  /\ InUnitInterval(info.total_occlusion)
            /\ info.opening_occluded =>
                /\ DOMAIN info.object_occlusions = DOMAIN maps
                /\ info.total_occlusion.num * size
                       = Cardinality(filled) * info.total_occlusion.den
                /\ \A o \in DOMAIN info.object_occlusions :
                    /\ InUnitInterval(info.object_occlusions[o])
                    /\ info.object_occlusions[o].den = info.total_occlusion.den
                    /\ info.object_occlusions[o].num <= info.total_occlusion.num
                /\ info.total_occlusion.num
                       <= SumOfNums(info.object_occlusions, DOMAIN info.object_occlusions)

\* Two objects whose maps overlap without one covering the other: the
\* total is above each of the two and below their sum.
C17_Witness ==
    /\ OpeningReturned(1)
    /\ \E x \in Entries(1) :
           LET info == x.entry.occlusion_info
           IN  /\ Cardinality(DOMAIN info.object_occlusions) = 2
               /\ \A o \in DOMAIN info.object_occlusions :
                      /\ 0 < info.object_occlusions[o].num
                      /\ info.object_occlusions[o].num < info.total_occlusion.num
               /\ info.total_occlusion.num
                      < SumOfNums(info.object_occlusions, DOMAIN info.object_occlusions)

\* C18: an opening whose occupancy image has no pixel is guarded: the run
\* does not fail on it and its side gets a defined occlusion result.
C18_ZeroAreaGuarded ==
    \A r \in Runs :
        op_pc[r] = "raised" => opening_map(op_cur[r].id) # {}

\* C19: an opening ID that starts with neither door nor window is rejected
\* with an error when its extrusion distance is requested, and gets no
\* door or window distance; a door or window ID gets a distance.
C19_UnknownOpeningRejected ==
    \A r \in Runs :
        extrude_call[r].called =>
            IF IsDoorId(extrude_call[r].opening_id) \/ IsWindowId(extrude_call[r].opening_id)
            THEN ~extrude_call[r].outcome.raised
            ELSE extrude_call[r].outcome = Raised("ValueError")

\* The extrusion distance of the wall and of a floor element was requested.
C19_Witness ==
    /\ extrude_call[1].called
    /\ extrude_call[1].opening_id = WallId
    /\ extrude_call[1].with_thickness
    /\ extrude_call[1].outcome.raised

\* C20: a failure while one opening is processed does not abort the
\* others: when the run has ended, every opening to process that has a
\* direction to check, but for the one that failed, has its result entries.
C20_FailureDoesNotAbort ==
    \A r \in Runs :
        op_pc[r] \in {"done", "raised"} =>
            \A k \in 1..Len(OpeningsToProcess) :
                LET opening == OpeningsToProcess[k]
                IN  (/\ opening # op_cur[r]
                     /\ get_opening_directions(opening.id, RoomSideOnly(opening.type)) # <<>>)
                    => \E x \in Entries(r) : x.opening_id = opening.id

\* ------------------------------------------------------- claims on the runs

\* C21: an empty scene is a fatal input error: run on a scene without
\* objects does not return a result.
C21_EmptySceneRejected ==
    \A r \in Runs : NumObjs = 0 => ~Returned(r)

CollidesAlone(a, b) ==
    LET mgr   == [n \in {a} |-> t_objs[a]]
        moved == MovedCopy(t_objs[b], MoveDirection(t_objs[b], ContactData(mgr, t_objs[b])))
    IN  /\ InCollisionSingle(mgr, t_objs[b])
        /\ IF moved.kind = "nan"
           THEN <<mgr, moved>> \in DOMAIN nan_answers /\ nan_answers[<<mgr, moved>>] = "true"
           ELSE InCollisionSingle(mgr, moved)

\* The data a run returns when it runs on its own: every object with its
\* partners in scene order.
AloneResult ==
    LET Partner(ko, kp) ==
            IF kp < ko THEN CollidesAlone(get_obj_ids[kp], get_obj_ids[ko])
            ELSE kp > ko /\ CollidesAlone(get_obj_ids[ko], get_obj_ids[kp])
        PartnersOf(ko) ==
            SelectSeq(get_obj_ids, LAMBDA p : \E kp \in 1..NumObjs :
                                      get_obj_ids[kp] = p /\ Partner(ko, kp))
    IN  Summary([o \in ObjSet |->
            LET ko == CHOOSE k \in 1..NumObjs : get_obj_ids[k] = o
            IN  [in_collision |-> PartnersOf(ko) # <<>>,
                 colliding_with |-> PartnersOf(ko)]])

\* C23: of two interleaved calls of CollisionMetric.run, each tests against
\* one resident object, one it has added itself and that comes before the
\* query in scene order, and returns what a call on its own returns.
C23_PrivateQueryStructure ==
    \A r \in Runs :
        /\ \A k \in 1..Len(calls[r]) :
               \E a \in ObjSet : calls[r][k].resident = {a} /\ a < calls[r][k].query
        /\ pc[r] \in {"inner", "double_check"} =>
               \A k \in 1..Len(calls[r]) :
                   \A a \in calls[r][k].resident : a <= CurObj(r)
        /\ Returned(r) => result[r] = AloneResult

\* The two calls are under way at different objects, each with tests made.
C23_Witness ==
    /\ pc[1] = "inner"
    /\ pc[2] = "double_check"
    /\ i[1] = 2
    /\ i[2] = 1
    /\ calls[1] # <<>>
    /\ calls[2] # <<>>

\* C24: no step of a run changes the scene: object meshes, architecture
\* and the object-ID list stay what they were; the second test is made on a
\* moved copy.
C24_SceneUnchanged == [][scene' = scene]_vars

\* A run has returned after a second test on a copy that is not where the
\* scene's mesh is.
C24_Witness ==
    /\ Returned(1)
    /\ \E k \in 1..Len(calls[1]) :
           /\ calls[1][k].stage = 2
           /\ calls[1][k].mesh.kind = "box"
           /\ calls[1][k].mesh # t_objs[calls[1][k].query]

\* -------------------------------------- claims on the steps of the opening run

\* A floor element lies under the point offset from the opening's centre
\* along the direction.
IntoRoom(opening_id, direction) ==
    \E a \in FloorIds :
        /\ t_architecture[a].x0 <= t_architecture[opening_id].u
        /\ t_architecture[opening_id].u <= t_architecture[a].x1
        /\ LET v == IF direction = "front" THEN -op_cfg.within_room_point_offset
                                          ELSE op_cfg.within_room_point_offset
           IN  t_architecture[a].y0 <= v /\ v <= t_architecture[a].y1

\* C25: the directions resolved for an opening are, with room-side-only,
\* those of front and back (in this order) whose offset point has floor
\* under it, none, one or both; without it, both front and back.
C25_DirectionsResolved ==
    [][\A r \in Runs :
          op_todo'[r] # op_todo[r] /\ op_todo[r] # <<>> =>
              LET opening == Head(op_todo[r])
                  Kept(d) == ~RoomSideOnly(opening.type) \/ IntoRoom(opening.id, d)
              IN  op_dirs'[r] = (IF Kept("front") THEN <<"front">> ELSE <<>>)
                                \o (IF Kept("back") THEN <<"back">> ELSE <<>>)]_vars

\* With room-side-only, one direction was resolved for the window after
\* two for the first door and none for the second.
C25_Witness ==
    /\ op_pc[1] = "side"
    /\ op_cfg.door_room_side_only
    /\ op_cur[1].type = "window"
    /\ op_dirs[1] = <<"front">>
    /\ \E d1, d2 \in DOMAIN t_architecture :
           /\ IsDoorId(d1) /\ IsDoorId(d2)
           /\ d1 \in DOMAIN op_result[1].door_clearance
           /\ Len(op_result[1].door_clearance[d1]) = 2
           /\ d2 \notin DOMAIN op_result[1].door_clearance

\* The extrusion distance of a door or window, from the configuration and
\* the element alone.
ExpectedExtrudeDistance(opening_id, with_thickness) ==
    (IF IsDoorId(opening_id)
     THEN IF op_cfg.door_use_width_as_extrude
          THEN t_architecture[opening_id].width
          ELSE op_cfg.door_extrude_distance
     ELSE op_cfg.window_front_extrude_distance)
    + (IF with_thickness THEN t_architecture[opening_id].depth \div 2 ELSE 0)

\* C26: the extrusion distance of a door is its width, or the configured
\* door distance; that of a window the configured window distance; half
\* the thickness is added exactly when asked for.  The clearance box of a
\* side is that deep whatever the side and the objects are.
C26_ExtrudeDistance ==
    \A r \in Runs :
        /\ (/\ extrude_call[r].called
            /\ IsDoorId(extrude_call[r].opening_id) \/ IsWindowId(extrude_call[r].opening_id))
           => extrude_call[r].outcome =
                  Value(ExpectedExtrudeDistance(extrude_call[r].opening_id,
                                                extrude_call[r].with_thickness))
        /\ op_pc[r] = "project" =>
               LET box == clearance_bbox(op_cur[r].id, Head(op_dirs[r]))
               IN  box.v1 - box.v0 = ExpectedExtrudeDistance(op_cur[r].id, TRUE)

\* The distance of a door whose width is not the configured door distance
\* was requested with the thickness, in a scene with objects.
C26_Witness ==
    /\ extrude_call[1].called
    /\ IsDoorId(extrude_call[1].opening_id)
    /\ extrude_call[1].with_thickness
    /\ op_cfg.door_use_width_as_extrude
    /\ t_architecture[extrude_call[1].opening_id].width # op_cfg.door_extrude_distance
    /\ t_architecture[extrude_call[1].opening_id].depth > 0
    /\ NumObjs > 0

\* The extrusion interval on the depth axis of one side of an opening.
ExtrusionInterval(opening_id, side_direction) ==
    IF side_direction = "front"
    THEN [lo |-> -ExpectedExtrudeDistance(opening_id, TRUE), hi |-> 0]
    ELSE [lo |-> 0, hi |-> ExpectedExtrudeDistance(opening_id, TRUE)]

\* The faces of an object whose depth range meets the extrusion interval.
FacesInExtrusion(obj_id, opening_id, side_direction) ==
    {f \in t_objs[obj_id].faces :
        /\ f.v0 <= ExtrusionInterval(opening_id, side_direction).hi
        /\ f.v1 >= ExtrusionInterval(opening_id, side_direction).lo}

\* The pixels of the opening's image a face covers.
FacePixels(f, opening_id) ==
    LET e   == t_architecture[opening_id]
        ppm == op_cfg.map_pixel_per_meter
        px(u) == TruncDiv((u - (e.u - e.width \div 2)) * ppm, 1000)
        py(w) == TruncDiv(((e.w - e.height \div 2 + e.height) - w) * ppm, 1000)
    IN  {p \in opening_map(opening_id) :
            /\ px(f.u0) <= p[1] /\ p[1] <= px(f.u1)
            /\ py(f.w1) <= p[2] /\ p[2] <= py(f.w0)}

\* C27: when a side has been projected, the objects with an occupancy map
\* are the interfering objects with a triangle whose depth range meets the
\* extrusion interval of the side, ends included, and the map of each is
\* what exactly those triangles cover.
C27_TrianglesInExtrusion ==
    \A r \in Runs :
        op_pc[r] = "summarize" =>
            LET opening_id == op_cur[r].id
                side == Head(op_dirs[r])
                ids == {interfering_obj_ids[r][k] : k \in 1..Len(interfering_obj_ids[r])}
            IN  /\ DOMAIN occupancy_maps[r] =
                       {o \in ids : FacesInExtrusion(o, opening_id, side) # {}}
                /\ \A o \in DOMAIN occupancy_maps[r] :
                       occupancy_maps[r][o] =
                           UNION {FacePixels(f, opening_id) :
                                     f \in FacesInExtrusion(o, opening_id, side)}

\* An object has a map though every triangle of it in the interval only
\* touches the far end of the interval, and others of its triangles lie
\* beyond.
C27_Witness ==
    /\ op_pc[1] = "summarize"
    /\ \E o \in DOMAIN occupancy_maps[1] :
           /\ occupancy_maps[1][o] # {}
           /\ \A f \in FacesInExtrusion(o, op_cur[1].id, Head(op_dirs[1])) :
                  f.v1 = ExtrusionInterval(op_cur[1].id, Head(op_dirs[1])).lo
           /\ FacesInExtrusion(o, op_cur[1].id, Head(op_dirs[1])) # t_objs[o].faces

\* C30: between two openings and at the return, every opening processed so
\* far has one entry for each direction resolved for it, in their order,
\* under its own key of door_clearance or window_clearance and not under
\* the other; an opening without a direction has no key.
C30_EntriesPerDirection ==
    \A r \in Runs :
        op_pc[r] \in {"opening", "done"} =>
            /\ \A a \in DOMAIN op_result[r].door_clearance : IsDoorId(a)
            /\ \A a \in DOMAIN op_result[r].window_clearance : IsWindowId(a)
            /\ \A k \in 1..(Len(OpeningsToProcess) - Len(op_todo[r])) :
                   LET opening == OpeningsToProcess[k]
                       dirs == get_opening_directions(opening.id, RoomSideOnly(opening.type))
                       clearance == IF opening.type = "door"
                                    THEN op_result[r].door_clearance
                                    ELSE op_result[r].window_clearance
                   IN  IF dirs = <<>>
                       THEN opening.id \notin DOMAIN clearance
                       ELSE /\ opening.id \in DOMAIN clearance
                            /\ Len(clearance[opening.id]) = Len(dirs)
                            /\ \A j \in 1..Len(dirs) :
                                   clearance[opening.id][j].direction = dirs[j]

\* The run has returned with two entries for a door, one for a window and
\* no key for a door that was processed.
C30_Witness ==
    /\ op_pc[1] = "done"
    /\ \E a \in DOMAIN op_result[1].door_clearance :
           Len(op_result[1].door_clearance[a]) = 2
    /\ \E a \in DOMAIN op_result[1].window_clearance :
           Len(op_result[1].window_clearance[a]) = 1
    /\ \E k \in 1..Len(OpeningsToProcess) :
           /\ OpeningsToProcess[k].type = "door"
           /\ OpeningsToProcess[k].id \notin DOMAIN op_result[1].door_clearance

\* ------------------------------------------- claims on the collision tests

PositionOf(o) == CHOOSE k \in 1..NumObjs : get_obj_ids[k] = o

FirstTests(r) == {k \in 1..Len(calls[r]) : calls[r][k].stage = 1}

\* C28: every first test has the earlier object of its pair resident and
\* the later one as the query, and no pair is tested twice; when the run
\* returns every pair of distinct objects has had its first test, n(n-1)/2
\* in all, and no colliding_with list names an object twice.
C28_EveryPairOnce ==
    \A r \in Runs :
        /\ \A k \in FirstTests(r) :
               \E a \in ObjSet :
                   /\ calls[r][k].resident = {a}
                   /\ PositionOf(a) < PositionOf(calls[r][k].query)
        /\ \A k1, k2 \in FirstTests(r) :
               (/\ calls[r][k1].resident = calls[r][k2].resident
                /\ calls[r][k1].query = calls[r][k2].query) => k1 = k2
        /\ Returned(r) =>
               /\ 2 * Cardinality(FirstTests(r)) = NumObjs * (NumObjs - 1)
               /\ \A ka \in 1..NumObjs : \A kb \in (ka + 1)..NumObjs :
                      \E k \in FirstTests(r) :
                          /\ calls[r][k].resident = {get_obj_ids[ka]}
                          /\ calls[r][k].query = get_obj_ids[kb]
               /\ \A o \in ObjSet :
                      \A j1, j2 \in 1..Len(CollidingWith(r, o)) :
                          CollidingWith(r, o)[j1] = CollidingWith(r, o)[j2] => j1 = j2

\* A run on the most objects has returned after first tests of both
\* answers, with an object colliding with two others.
C28_Witness ==
    /\ Returned(1)
    /\ NumObjs = MaxObjs
    /\ \E k \in FirstTests(1) : calls[1][k].answer = "true"
    /\ \E k \in FirstTests(1) : calls[1][k].answer = "false"
    /\ \E o \in ObjSet : Len(CollidingWith(1, o)) = 2

====
